---------------------------- MODULE Spec2Model ----------------------------
(***************************************************************************)
(* A model of src/pysoem_tset.py: the EtherCAT bring-up of main, the       *)
(* background process-data thread (data_exchange_worker) and the CiA-402   *)
(* enable sequence of cyclic_operation_cst in Cyclic Synchronous Torque    *)
(* mode.                                                                   *)
(*                                                                         *)
(* Two threads exist: the main thread (position mpc) and the worker thread *)
(* (position wpc).  They share the module-level globals of the source,     *)
(* which keep their names here, and the lock _data_exchange_lock.          *)
(*                                                                         *)
(* Specifications:                                                         *)
(*   Spec     a session of main, from opening the adapter to              *)
(*            master.close(), both threads statement by statement, with a  *)
(*            slow cycle so that every stage of the enable sequence is a   *)
(*            few steps long;                                              *)
(*   SpecOp   set_slaves_to_op_state_cst beside the worker, the worker     *)
(*            counting its cycles up to wait_cycles;                       *)
(*   SpecCst  the enable sequence of cyclic_operation_cst for every        *)
(*            period of Periods, beside the worker's tick;                 *)
(*   FairSpecOp  SpecOp with the scheduling of the two threads fair;       *)
(*   SpecUp   the bring-up of main from configure_pdo_mapping through      *)
(*            configure_slaves to enter_safeop_state, call by call;        *)
(*   SpecPdo  configure_pdo_mapping write by write against an object       *)
(*            dictionary that keeps the writes that returned;              *)
(*   SpecCyclic  the loop of cyclic_operation with its counters;           *)
(*   SpecStall, FairSpecStall  set_slaves_to_op_state_cst beside a worker   *)
(*            whose cycle count stays far below wait_cycles, for several   *)
(*            periods; the Fair one with both threads scheduled;           *)
(*   SpecStop, FairSpecStop  stop_data_exchange_thread beside the worker at *)
(*            any point of its run; the Fair one with the worker scheduled;*)
(*   SpecEnc  the worker alone, encoding into output buffers of several    *)
(*            lengths and contents;                                        *)
(*   SpecRun, FairSpecRun  the loop of cyclic_operation_cst beside the      *)
(*            worker's tick, from step 0 and from just below the cap of    *)
(*            the step counter; the Fair one with main scheduled.          *)
(***************************************************************************)
EXTENDS Integers, Sequences, FiniteSets, TLC

(***************************************************************************)
(* Program constants.                                                      *)
(***************************************************************************)
\* cyclic_operation_cst: base_duration_ms = 4000
base_duration_ms == 4000
\* cyclic_operation_cst: offsets of the Shutdown, Switch On and Enable
\* Operation thresholds, in milliseconds
shutdown_offset_ms == 1000
switch_on_offset_ms == 2000
enable_offset_ms == 3000
\* cyclic_operation_cst: if step < 25000: step += 1
step_limit == 25000
\* control words of the enable sequence
CW_FAULT_RESET == 128
CW_SHUTDOWN == 6
CW_SWITCH_ON == 7
CW_ENABLE_OPERATION == 15
\* _thread_target_torque = 50 in the last branch of the state machine
RUN_TORQUE == 50
\* _thread_mode_of_operation = 10 (CST)
CST_MODE == 10
\* len(output_data) >= 6: controlword(2) + target_torque(2) + mode(1) + padding(1)
FRAME_LEN == 6
\* set_slaves_to_op_state_cst: wait_cycles = 300
wait_cycles == 300
\* set_slaves_to_op_state_cst: max_attempts = 10
max_attempts == 10
\* status word bit 3: Fault (statusword & 0x0008)
FAULT_BIT == 8
\* non_critical_error_codes = [0x730F]
NON_CRITICAL_ERROR_CODE == 29455

\* configure_pdo_mapping: the objects written and map_count = 4
RXPDO_MAP == 5632
TXPDO_MAP == 6656
RXPDO_ASSIGN == 7186
TXPDO_ASSIGN == 7187
POSITIVE_TORQUE_LIMIT == 24800
NEGATIVE_TORQUE_LIMIT == 24801
MAP_COUNT == 4
\* cyclic_operation_cst: len(master.slaves[0].input) >= 12
INPUT_LEN == 12
(***************************************************************************)
(* Bounds of the model.                                                    *)
(***************************************************************************)
\* iterations of the cyclic_operation_cst loop explored past the step at
\* which the Running stage is entered
MaxRunSteps == 3
\* completed worker cycles followed in Spec, and past wait_cycles in SpecOp
MaxCycles == 3
\* the slaves on the bus in SpecUp and SpecPdo
NumSlaves == 2
\* sdo_write calls that fail in one run of configure_pdo_mapping
MaxFailures == 2
\* cycles of cyclic_operation followed
MaxObservations == 4
\* the largest working counter
MaxWkc == 3
\* the cycle periods (ETHERCAT_CYCLE_TIME_MS, in ms) of SpecCst
Periods == 1..10
\* the cycle period of Spec and SpecOp: one step of the enable sequence per second
SlowPeriods == {1000}
\* what the main thread can find as status word in slave.input: nothing
\* usable (NoStatus), the fault bit set, the fault bit clear
NoStatus == -1
StatusWords == {NoStatus, FAULT_BIT, 0}
\* what sdo_read(0x603F) can give: no error, the non-critical code, another
\* code (0x3210), nothing (the read failed)
ErrorCodes == {0, NON_CRITICAL_ERROR_CODE, 12816, -1}

VARIABLES
    ETHERCAT_CYCLE_TIME_MS,       \* the configured cycle period, in ms
    _data_exchange_running,       \* the worker's run flag
    _data_exchange_lock,          \* "free", "main" or "worker"
    _data_exchange_cycle_count,   \* cycles the worker has completed
    _thread_controlword,          \* shared semantic fields
    _thread_target_torque,
    _thread_mode_of_operation,
    output,                       \* master.slaves[0].output, a byte sequence
    output_data,                  \* the worker's bytearray while it encodes
    mpc,                          \* main thread position
    wpc,                          \* worker thread position
    step,                         \* cyclic_operation_cst: step
    has_non_critical_error,       \* cyclic_operation_cst: pre-loop diagnosis
    fault_cleared,                \* cyclic_operation_cst: fault_cleared
    diag,                         \* the pre-loop diagnosis: <<statusword, error_code>> just read
    slave_state,                  \* master.slaves[0].state as last read or set
    result_state,                 \* set_slaves_to_op_state_cst: result_state
    attempt,                      \* set_slaves_to_op_state_cst: attempt
    op_ok,                        \* what set_slaves_to_op_state_cst returned
    wait_timed_out,               \* the wait for wait_cycles ended on its 1 s limit
    wait_elapsed_ms,              \* time.time() - start_wait in the wait loop, in ms
    op_requested,                 \* write_state() has written the OP request
    safeop_written,               \* set_slaves_to_safeop_state has written its request
    closed,                       \* master.close() has been called
    failed_step,                  \* the call of main that returned False or raised
    tick_ops,                     \* process-data steps of the worker's current tick
    outstanding,                  \* frames sent and not yet received
    \* the devices and the bring-up of main (configure_slaves, enter_safeop_state)
    al_state,                     \* the state each device is in
    slave_states,                 \* slave.state of each slave, as last read or set
    all_preop,                    \* the local all_preop
    slave_i,                      \* the slave a `for i, slave in enumerate` loop is at
    pdo_written,                  \* configure_pdo_mapping has issued its writes
    config_map_calls,             \* calls of master.config_map() so far
    config_map_ok,                \* a call of master.config_map() has returned
    fallback_runs,                \* entries into the fallback of configure_slaves
    clear_log,                    \* the fallback's clear writes: <<slave, index, ok>>
    config_init_reruns,           \* calls of master.config_init() in the fallback
    cs_error,                     \* the call that raised into `except Exception as e2`
    config_dc_called,             \* master.config_dc() has been called
    dc_sync_calls,                \* the slaves whose dc_sync has been called
    safeop_requested,             \* enter_safeop_state has written its request
    dc_failed,                    \* the distributed-clock calls that failed
    dc_control,                   \* 0x1C32:0x01 as read for each slave, <<>> before
    \* configure_pdo_mapping
    od,                           \* the devices' object dictionaries
    retval,                       \* the local retval
    sdo_log,                      \* the sdo_write calls made: <<slave, position, ok>>
    pdo_pos,                      \* the position in the write sequence of a slave
    pdo_result,                   \* what configure_pdo_mapping returned
    \* cyclic_operation
    cycle_count,
    success_count,
    timeout_count,
    low_wkc_count,
    wkc,                          \* what receive_processdata returned last
    expected_wkc,                 \* master.expected_wkc
    recv_calls,                   \* calls of receive_processdata so far
    wkc_class                     \* the branch the last cycle took

cfgVars == <<ETHERCAT_CYCLE_TIME_MS>>
flagVars == <<_data_exchange_running>>
lockVars == <<_data_exchange_lock>>
countVars == <<_data_exchange_cycle_count>>
fieldVars == <<_thread_controlword, _thread_target_torque, _thread_mode_of_operation>>
bufVars == <<output, output_data>>
cstVars == <<step, has_non_critical_error, fault_cleared, diag>>
opVars == <<slave_state, result_state, attempt, op_ok, wait_timed_out, wait_elapsed_ms,
           op_requested>>
endVars == <<safeop_written, closed, failed_step>>
tickVars == <<tick_ops, outstanding>>
\* the state of the two threads' session
sessionVars == <<cfgVars, flagVars, lockVars, countVars, fieldVars, bufVars, cstVars,
                 opVars, tickVars, wpc>>
threadVars == <<sessionVars, endVars>>
devVars == <<al_state, slave_states>>
loopVars == <<all_preop, slave_i>>
mapVars == <<config_map_calls, config_map_ok, fallback_runs, clear_log,
             config_init_reruns, cs_error>>
dcVars == <<config_dc_called, dc_sync_calls, safeop_requested, dc_failed, dc_control>>
upVars == <<loopVars, pdo_written, mapVars, dcVars>>
pdoVars == <<od, retval, sdo_log, pdo_pos, pdo_result>>
cyclicVars == <<cycle_count, success_count, timeout_count, low_wkc_count,
                wkc, expected_wkc, recv_calls, wkc_class>>
\* the state of the functions that run before or without the worker thread
seqVars == <<devVars, upVars, pdoVars, cyclicVars>>
vars == <<cfgVars, flagVars, lockVars, countVars, fieldVars, bufVars, cstVars,
          opVars, endVars, tickVars, mpc, wpc, seqVars>>

(***************************************************************************)
(* The output frame: int.to_bytes as the worker uses it.                   *)
(***************************************************************************)
\* v.to_bytes(2, 'little')
U16LE(v) == <<v % 256, (v \div 256) % 256>>
\* v.to_bytes(2, 'little', signed=True): two's complement
S16LE(v) == U16LE(IF v < 0 THEN v + 65536 ELSE v)
\* output_data[0:2] = _thread_controlword.to_bytes(2, 'little')
SetControlword(buf, cw) == [buf EXCEPT ![1] = U16LE(cw)[1], ![2] = U16LE(cw)[2]]
\* output_data[2:4] = _thread_target_torque.to_bytes(2, 'little', signed=True)
SetTorque(buf, tq) == [buf EXCEPT ![3] = S16LE(tq)[1], ![4] = S16LE(tq)[2]]
\* the mode and the padding written to each other's byte
SetModeSwapped(buf, m) == [buf EXCEPT ![5] = 0, ![6] = m]
\* the frame cut to its six bytes by the last assignment
SetModeTruncates(buf, m) == SubSeq(buf, 1, 4) \o <<m, 0>>
\* output_data[4] = _thread_mode_of_operation; output_data[5] = padding
SetMode(buf, m) == [buf EXCEPT ![5] = m, ![6] = 0]
\* a slave is encoded only if its buffer holds the frame
Encodable(buf) == Len(buf) >= FRAME_LEN
\* the whole encode of one slave
EncodeFrame(buf, cw, tq, m) ==
    IF Encodable(buf) THEN SetMode(SetTorque(SetControlword(buf, cw), tq), m) ELSE buf
\* int.from_bytes(output[0:2], 'little')
FrameControlword(buf) == buf[1] + 256 * buf[2]
\* int.from_bytes(output[2:4], 'little', signed=True)
FrameTorque(buf) ==
    LET u == buf[3] + 256 * buf[4] IN IF u >= 32768 THEN u - 65536 ELSE u
FrameMode(buf) == buf[5]

(***************************************************************************)
(* The enable sequence of cyclic_operation_cst.                            *)
(***************************************************************************)
\* the conversion rounded up instead of truncated
CyclesRoundedUp(ms, period) == (ms + period - 1) \div period
\* int(ms / ETHERCAT_CYCLE_TIME_MS)
Cycles(ms, period) == ms \div period
\* fault_reset_duration = int(base_duration_steps * 0.5) if has_non_critical_error
\*                        else base_duration_steps
FaultResetDuration(period, noncritical) ==
    IF noncritical THEN Cycles(base_duration_ms, period) \div 2
    ELSE Cycles(base_duration_ms, period)
\* the step after which the Running stage is entered
RunThreshold(period, noncritical) ==
    FaultResetDuration(period, noncritical) + Cycles(enable_offset_ms, period)
\* the chain with `<` in place of `<=`: each stage begins one step earlier
StageControlwordStrict(s, period, noncritical) ==
    LET frd == FaultResetDuration(period, noncritical) IN
    IF s < frd THEN CW_FAULT_RESET
    ELSE IF s < frd + Cycles(shutdown_offset_ms, period) THEN CW_SHUTDOWN
    ELSE IF s < frd + Cycles(switch_on_offset_ms, period) THEN CW_SWITCH_ON
    ELSE CW_ENABLE_OPERATION
\* the chain with the Switch On branch compared against the Shutdown offset:
\* the branch is never taken
StageControlwordSkip(s, period, noncritical) ==
    LET frd == FaultResetDuration(period, noncritical) IN
    IF s <= frd THEN CW_FAULT_RESET
    ELSE IF s <= frd + Cycles(shutdown_offset_ms, period) THEN CW_SHUTDOWN
    ELSE IF s <= frd + Cycles(shutdown_offset_ms, period) THEN CW_SWITCH_ON
    ELSE CW_ENABLE_OPERATION
\* the chain with the Fault Reset branch left as soon as the fault is seen
\* cleared
StageControlwordEarlyExit(s, period, noncritical) ==
    LET frd == FaultResetDuration(period, noncritical) IN
    IF s <= frd /\ ~fault_cleared THEN CW_FAULT_RESET
    ELSE IF s <= frd + Cycles(shutdown_offset_ms, period) THEN CW_SHUTDOWN
    ELSE IF s <= frd + Cycles(switch_on_offset_ms, period) THEN CW_SWITCH_ON
    ELSE CW_ENABLE_OPERATION
\* the control word the if/elif chain writes at step s
StageControlword(s, period, noncritical) ==
    LET frd == FaultResetDuration(period, noncritical) IN
    IF s <= frd THEN CW_FAULT_RESET
    ELSE IF s <= frd + Cycles(shutdown_offset_ms, period) THEN CW_SHUTDOWN
    ELSE IF s <= frd + Cycles(switch_on_offset_ms, period) THEN CW_SWITCH_ON
    ELSE CW_ENABLE_OPERATION
\* the torque with `<` in place of `<=` in the Enable Operation branch
StageTorqueStrict(s, period, noncritical) ==
    IF s < FaultResetDuration(period, noncritical) + Cycles(enable_offset_ms, period)
    THEN 0 ELSE RUN_TORQUE
\* the torque commanded together with Enable Operation, in one branch
StageTorqueWithEnable(s, period, noncritical) ==
    IF s <= FaultResetDuration(period, noncritical) + Cycles(switch_on_offset_ms, period)
    THEN 0 ELSE RUN_TORQUE
\* the target torque the if/elif chain writes at step s
StageTorque(s, period, noncritical) ==
    IF s <= FaultResetDuration(period, noncritical) + Cycles(enable_offset_ms, period)
    THEN 0 ELSE RUN_TORQUE
\* fault_cleared after the Fault Reset branch has looked at the status word sw
FaultClearedAfter(fc, sw, s, period, noncritical) ==
    LET frd == FaultResetDuration(period, noncritical) IN
    IF s > frd \/ sw = NoStatus THEN fc
    ELSE IF (sw \div FAULT_BIT) % 2 = 0 THEN TRUE
    ELSE IF noncritical /\ 2 * s > frd THEN TRUE
    ELSE fc
\* the counter starting over at the cap
NextStepWraps(s) == IF s < step_limit THEN s + 1 ELSE 0
\* if step < 25000: step += 1
NextStep(s) == IF s < step_limit THEN s + 1 ELSE s

(***************************************************************************)
(* The worker thread: data_exchange_worker, statement by statement.        *)
(***************************************************************************)
\* the order of the process-data steps of one tick
TickOrder == <<"recv", "encode", "send">>
\* the thread object exists and its function has not returned
ThreadAlive == wpc \notin {"w_idle", "w_done", "w_dead"}
\* _data_exchange_cycle_count += 1
CountUp(c) == c + 1
\* what the encode of the control word leaves in output_data, and whether the
\* slave is encoded at all (to_bytes raises OverflowError out of range)
CanEncodeControlword(buf, cw) == Encodable(buf) /\ cw \in 0..65535
CanEncodeTorque(tq) == tq \in -32768..32767

\* send_processdata puts one more frame on the wire
Sent(n) == n + 1
\* receive_processdata takes a frame in if one is outstanding
Received(n) == IF n > 0 THEN n - 1 ELSE 0

\* the initial block entered without the with statement
WorkerInitNoLock ==
    /\ wpc = "w_start"
    /\ wpc' = "w_init_cw"
    /\ UNCHANGED <<cfgVars, seqVars, flagVars, lockVars, countVars, fieldVars, bufVars, cstVars,
                   opVars, endVars, tickVars, mpc>>
\* with _data_exchange_lock: (initial block)
WorkerInitLock ==
    /\ wpc = "w_start"
    /\ _data_exchange_lock = "free"
    /\ _data_exchange_lock' = "worker"
    /\ wpc' = "w_init_cw"
    /\ UNCHANGED <<cfgVars, seqVars, flagVars, countVars, fieldVars, bufVars, cstVars,
                   opVars, endVars, tickVars, mpc>>

\* output_data = bytearray(slave.output); output_data[0:2] = controlword
WorkerInitEncodeControlword ==
    /\ wpc = "w_init_cw"
    /\ IF CanEncodeControlword(output, _thread_controlword)
       THEN /\ output_data' = SetControlword(output, _thread_controlword)
            /\ wpc' = "w_init_tq"
       ELSE /\ output_data' = output_data
            /\ wpc' = "w_init_send"
    /\ UNCHANGED <<cfgVars, seqVars, flagVars, lockVars, countVars, fieldVars, output, cstVars,
                   opVars, endVars, tickVars, mpc>>

\* output_data[2:4] = target torque
WorkerInitEncodeTorque ==
    /\ wpc = "w_init_tq"
    /\ IF CanEncodeTorque(_thread_target_torque)
       THEN /\ output_data' = SetTorque(output_data, _thread_target_torque)
            /\ wpc' = "w_init_mode"
       ELSE /\ output_data' = output_data
            /\ wpc' = "w_init_send"
    /\ UNCHANGED <<cfgVars, seqVars, flagVars, lockVars, countVars, fieldVars, output, cstVars,
                   opVars, endVars, tickVars, mpc>>

\* output_data[4] = mode; output_data[5] = padding; slave.output = bytes(output_data)
WorkerInitEncodeMode ==
    /\ wpc = "w_init_mode"
    /\ output_data' = SetMode(output_data, _thread_mode_of_operation)
    /\ output' = output_data'
    /\ wpc' = "w_init_send"
    /\ UNCHANGED <<cfgVars, seqVars, flagVars, lockVars, countVars, fieldVars, cstVars,
                   opVars, endVars, tickVars, mpc>>

\* master.send_processdata() of the initial block
WorkerInitSend ==
    /\ wpc = "w_init_send"
    /\ wpc' = "w_init_recv"
    /\ outstanding' = Sent(outstanding)
    /\ UNCHANGED <<cfgVars, seqVars, flagVars, lockVars, countVars, fieldVars, bufVars, cstVars,
                   opVars, endVars, tick_ops, mpc>>

\* master.receive_processdata(timeout=5000) of the initial block; the with
\* block ends and the lock is released
WorkerInitRecv ==
    /\ wpc = "w_init_recv"
    /\ _data_exchange_lock' = "free"
    /\ wpc' = "w_top"
    /\ outstanding' = Received(outstanding)
    /\ UNCHANGED <<cfgVars, seqVars, flagVars, countVars, fieldVars, bufVars, cstVars,
                   opVars, endVars, tick_ops, mpc>>

\* send or receive of the initial block raises: the block is outside the
\* loop's try, the with statement releases the lock and the thread ends
WorkerInitRaise ==
    /\ wpc \in {"w_init_send", "w_init_recv"}
    /\ _data_exchange_lock' = "free"
    /\ wpc' = "w_dead"
    /\ UNCHANGED <<cfgVars, seqVars, flagVars, countVars, fieldVars, bufVars, cstVars,
                   opVars, endVars, tickVars, mpc>>

\* the loop test passed whatever the flag says (while True)
WorkerLoopTopIgnoresFlag(limit) ==
    /\ wpc = "w_top"
    /\ _data_exchange_cycle_count < limit
    /\ wpc' = "w_lock"
    /\ UNCHANGED <<cfgVars, seqVars, flagVars, lockVars, countVars, fieldVars, bufVars, cstVars,
                   opVars, endVars, tickVars, mpc>>
\* while _data_exchange_running: the model follows the worker for `limit`
\* completed cycles
WorkerLoopTop(limit) ==
    /\ wpc = "w_top"
    /\ _data_exchange_running => _data_exchange_cycle_count < limit
    /\ wpc' = IF _data_exchange_running THEN "w_lock" ELSE "w_done"
    /\ UNCHANGED <<cfgVars, seqVars, flagVars, lockVars, countVars, fieldVars, bufVars, cstVars,
                   opVars, endVars, tickVars, mpc>>

WorkerTop == WorkerLoopTop(MaxCycles)

\* with _data_exchange_lock: (of a tick)
WorkerLock ==
    /\ wpc = "w_lock"
    /\ _data_exchange_lock = "free"
    /\ _data_exchange_lock' = "worker"
    /\ tick_ops' = <<>>
    /\ wpc' = "w_recv"
    /\ outstanding' = outstanding
    /\ UNCHANGED <<cfgVars, seqVars, flagVars, countVars, fieldVars, bufVars, cstVars,
                   opVars, endVars, mpc>>

\* wkc = master.receive_processdata(timeout=5000)
WorkerRecv ==
    /\ wpc = "w_recv"
    /\ tick_ops' = Append(tick_ops, "recv")
    /\ wpc' = "w_enc_cw"
    /\ outstanding' = Received(outstanding)
    /\ UNCHANGED <<cfgVars, seqVars, flagVars, lockVars, countVars, fieldVars, bufVars, cstVars,
                   opVars, endVars, mpc>>

\* output_data = bytearray(slave.output); output_data[0:2] = controlword.
\* A slave without a large enough buffer, or whose encode raises, is passed over
WorkerEncodeControlword ==
    /\ wpc = "w_enc_cw"
    /\ IF CanEncodeControlword(output, _thread_controlword)
       THEN /\ output_data' = SetControlword(output, _thread_controlword)
            /\ tick_ops' = tick_ops
            /\ wpc' = "w_enc_tq"
       ELSE /\ output_data' = output_data
            /\ tick_ops' = Append(tick_ops, "encode")
            /\ wpc' = "w_send"
    /\ outstanding' = outstanding
    /\ UNCHANGED <<cfgVars, seqVars, flagVars, lockVars, countVars, fieldVars, output, cstVars,
                   opVars, endVars, mpc>>

\* output_data[2:4] = target torque
WorkerEncodeTorque ==
    /\ wpc = "w_enc_tq"
    /\ IF CanEncodeTorque(_thread_target_torque)
       THEN /\ output_data' = SetTorque(output_data, _thread_target_torque)
            /\ tick_ops' = tick_ops
            /\ wpc' = "w_enc_mode"
       ELSE /\ output_data' = output_data
            /\ tick_ops' = Append(tick_ops, "encode")
            /\ wpc' = "w_send"
    /\ outstanding' = outstanding
    /\ UNCHANGED <<cfgVars, seqVars, flagVars, lockVars, countVars, fieldVars, output, cstVars,
                   opVars, endVars, mpc>>

\* output_data[4] = mode; output_data[5] = padding; slave.output = bytes(output_data)
WorkerEncodeMode ==
    /\ wpc = "w_enc_mode"
    /\ output_data' = SetMode(output_data, _thread_mode_of_operation)
    /\ output' = output_data'
    /\ tick_ops' = Append(tick_ops, "encode")
    /\ wpc' = "w_send"
    /\ outstanding' = outstanding
    /\ UNCHANGED <<cfgVars, seqVars, flagVars, lockVars, countVars, fieldVars, cstVars,
                   opVars, endVars, mpc>>

\* master.send_processdata(); the with block ends and the lock is released
WorkerSend ==
    /\ wpc = "w_send"
    /\ tick_ops' = Append(tick_ops, "send")
    /\ _data_exchange_lock' = "free"
    /\ wpc' = "w_count"
    /\ outstanding' = Sent(outstanding)
    /\ UNCHANGED <<cfgVars, seqVars, flagVars, countVars, fieldVars, bufVars, cstVars,
                   opVars, endVars, mpc>>

\* the handler with the lock acquired by hand and not released on the way
\* out of the locked section
WorkerRaiseKeepsLock ==
    /\ wpc \in {"w_recv", "w_send"}
    /\ wpc' = "w_backoff"
    /\ UNCHANGED <<cfgVars, seqVars, flagVars, lockVars, countVars, fieldVars, bufVars, cstVars,
                   opVars, endVars, tickVars, mpc>>
\* the try around the while loop instead of inside it: an exception leaves
\* the loop
WorkerRaiseEndsLoop ==
    /\ wpc \in {"w_recv", "w_send"}
    /\ _data_exchange_lock' = "free"
    /\ wpc' = "w_done"
    /\ UNCHANGED <<cfgVars, seqVars, flagVars, countVars, fieldVars, bufVars, cstVars,
                   opVars, endVars, tickVars, mpc>>
\* the handler taking the torque off when a tick raises
WorkerRaiseZeroesTorque ==
    /\ wpc \in {"w_recv", "w_send"}
    /\ _data_exchange_lock' = "free"
    /\ _thread_target_torque' = 0
    /\ wpc' = "w_backoff"
    /\ UNCHANGED <<cfgVars, seqVars, flagVars, countVars, _thread_controlword,
                   _thread_mode_of_operation, bufVars, cstVars,
                   opVars, endVars, tickVars, mpc>>
\* receive or send of a tick raises: the with statement releases the lock,
\* except Exception: time.sleep(one cycle)
WorkerRaise ==
    /\ wpc \in {"w_recv", "w_send"}
    /\ _data_exchange_lock' = "free"
    /\ wpc' = "w_backoff"
    /\ UNCHANGED <<cfgVars, seqVars, flagVars, countVars, fieldVars, bufVars, cstVars,
                   opVars, endVars, tickVars, mpc>>

\* _data_exchange_cycle_count += 1; the rest of the period is slept unless
\* the tick overran it (sleep_time = 0)
WorkerCount ==
    /\ wpc = "w_count"
    /\ _data_exchange_cycle_count' = CountUp(_data_exchange_cycle_count)
    /\ \E overrun \in BOOLEAN : wpc' = IF overrun THEN "w_top" ELSE "w_sleep"
    /\ UNCHANGED <<cfgVars, seqVars, flagVars, lockVars, fieldVars, bufVars, cstVars,
                   opVars, endVars, tickVars, mpc>>

\* the loop with its test at the bottom of the body passed over: after the
\* sleep the next tick begins at once
WorkerWakeNoCheck ==
    /\ wpc \in {"w_sleep", "w_backoff"}
    /\ wpc' = "w_lock"
    /\ UNCHANGED <<cfgVars, seqVars, flagVars, lockVars, countVars, fieldVars, bufVars, cstVars,
                   opVars, endVars, tickVars, mpc>>
\* time.sleep(sleep_time) or the backoff's time.sleep returns
WorkerWake ==
    /\ wpc \in {"w_sleep", "w_backoff"}
    /\ wpc' = "w_top"
    /\ UNCHANGED <<cfgVars, seqVars, flagVars, lockVars, countVars, fieldVars, bufVars, cstVars,
                   opVars, endVars, tickVars, mpc>>

\* the worker's steps but the loop's top
WorkerBody ==
    \/ WorkerInitLock \/ WorkerInitEncodeControlword \/ WorkerInitEncodeTorque
    \/ WorkerInitEncodeMode \/ WorkerInitSend \/ WorkerInitRecv \/ WorkerInitRaise
    \/ WorkerLock \/ WorkerRecv \/ WorkerEncodeControlword
    \/ WorkerEncodeTorque \/ WorkerEncodeMode \/ WorkerSend \/ WorkerRaise
    \/ WorkerCount \/ WorkerWake

WorkerNext == WorkerTop \/ WorkerBody

(***************************************************************************)
(* The main thread: main and the functions it calls once the worker runs.  *)
(***************************************************************************)
\* the bring-up calls of main before the worker is started, in call order:
\* scan_slaves, enter_preop_state, configure_pdo_mapping, configure_slaves,
\* enter_safeop_state
BringUpOrder == <<"scan", "preop", "pdo_mapping", "configure_slaves", "enter_safeop">>
BringUpIndex(pc) == CHOOSE i \in 1..Len(BringUpOrder) : BringUpOrder[i] = pc
AfterBringUp(pc) ==
    IF BringUpIndex(pc) = Len(BringUpOrder) THEN "start_thread"
    ELSE BringUpOrder[BringUpIndex(pc) + 1]
\* the I/O buffer config_map gives the drive: one output frame, zeroed
MappedOutput == [i \in 1..FRAME_LEN |-> 0]

\* master.open(selected_adapter.name): opens, or raises ConnectionError
MainOpen ==
    /\ mpc = "open"
    /\ \E opened \in BOOLEAN :
          /\ mpc' = IF opened THEN "scan" ELSE "except"
          /\ failed_step' = IF opened THEN failed_step ELSE "open"
    /\ UNCHANGED <<cfgVars, seqVars, flagVars, lockVars, countVars, fieldVars, bufVars, cstVars,
                   opVars, safeop_written, closed, tickVars, wpc>>

\* the bring-up calls with their result ignored: main goes on to the next
\* call after a False
MainBringUpGoesOn ==
    /\ mpc \in {BringUpOrder[i] : i \in 1..Len(BringUpOrder)}
    /\ \E outcome \in {"ok", "fail", "raise"} :
          /\ mpc' = CASE outcome = "raise" -> "except"
                      [] OTHER -> AfterBringUp(mpc)
          /\ closed' = closed
          /\ failed_step' = IF outcome = "ok" THEN failed_step ELSE mpc
          /\ output' = IF outcome = "ok" /\ mpc = "configure_slaves"
                       THEN MappedOutput ELSE output
    /\ UNCHANGED <<cfgVars, seqVars, flagVars, lockVars, countVars, fieldVars, output_data, cstVars,
                   opVars, safeop_written, tickVars, wpc>>
\* if not <bring-up call>(master): master.close(); return.  The call returns
\* True, returns False, or raises
MainBringUp ==
    /\ mpc \in {BringUpOrder[i] : i \in 1..Len(BringUpOrder)}
    /\ \E outcome \in {"ok", "fail", "raise"} :
          /\ mpc' = CASE outcome = "ok" -> AfterBringUp(mpc)
                      [] outcome = "fail" -> "finally"
                      [] OTHER -> "except"
          /\ closed' = IF outcome = "fail" THEN TRUE ELSE closed
          /\ failed_step' = IF outcome = "ok" THEN failed_step ELSE mpc
          /\ output' = IF outcome = "ok" /\ mpc = "configure_slaves"
                       THEN MappedOutput ELSE output
    /\ UNCHANGED <<cfgVars, seqVars, flagVars, lockVars, countVars, fieldVars, output_data, cstVars,
                   opVars, safeop_written, tickVars, wpc>>

\* start_data_exchange_thread
StartThread ==
    /\ mpc = "start_thread"
    /\ _data_exchange_cycle_count' = 0
    /\ _thread_controlword' =
          IF _thread_controlword = 0 THEN CW_FAULT_RESET ELSE _thread_controlword
    /\ _thread_target_torque' = 0
    /\ _data_exchange_running' = TRUE
    /\ wpc' = "w_start"
    /\ mpc' = "op_enter"
    /\ UNCHANGED <<cfgVars, seqVars, lockVars, _thread_mode_of_operation, bufVars, cstVars,
                   opVars, endVars, tickVars>>

\* set_slaves_to_op_state_cst: master.read_state(); every slave must be in SAFEOP
OpEnter ==
    /\ mpc = "op_enter"
    /\ \E st \in {"SAFEOP", "PREOP"} :
          /\ slave_state' = st
          /\ mpc' = IF st = "SAFEOP" THEN "op_wait" ELSE "cst_mode"
          /\ op_ok' = FALSE
    /\ UNCHANGED <<cfgVars, seqVars, flagVars, lockVars, countVars, fieldVars, bufVars, cstVars,
                   result_state, attempt, wait_timed_out, wait_elapsed_ms, op_requested,
                   endVars, tickVars, wpc>>

\* the wait loop's test inverted
WaitSatisfiedInverted(count) == count < wait_cycles
\* while _data_exchange_cycle_count < wait_cycles:
WaitSatisfied(count) == count >= wait_cycles

OpWait ==
    /\ mpc = "op_wait"
    /\ mpc' = IF WaitSatisfied(_data_exchange_cycle_count)
              THEN "op_confirm_lock" ELSE "op_wait_sleep"
    /\ wait_elapsed_ms' = IF WaitSatisfied(_data_exchange_cycle_count)
                          THEN 0 ELSE wait_elapsed_ms
    /\ UNCHANGED <<cfgVars, seqVars, flagVars, lockVars, countVars, fieldVars, bufVars, cstVars,
                   slave_state, result_state, attempt, op_ok, wait_timed_out, op_requested,
                   endVars, tickVars, wpc>>

\* time.sleep returns after the time asked for, or later
SleepOvershoots == {0, 1}
\* the wait loop without its time limit
SecondElapsedNever(ms) == FALSE
\* if time.time() - start_wait > 1.0
SecondElapsed(ms) == ms > 1000
\* time.sleep(one cycle); if time.time() - start_wait > 1.0: break
OpWaitSleep ==
    /\ mpc = "op_wait_sleep"
    /\ \E late \in SleepOvershoots :
          LET now == wait_elapsed_ms + ETHERCAT_CYCLE_TIME_MS + late
          IN /\ wait_timed_out' = SecondElapsed(now)
             /\ wait_elapsed_ms' = IF SecondElapsed(now) THEN 0 ELSE now
             /\ mpc' = IF SecondElapsed(now) THEN "op_confirm_lock" ELSE "op_wait"
    /\ UNCHANGED <<cfgVars, seqVars, flagVars, lockVars, countVars, fieldVars, bufVars, cstVars,
                   slave_state, result_state, attempt, op_ok, op_requested,
                   endVars, tickVars, wpc>>

\* the confirmation exchange without the with statement
OpConfirmNoLock ==
    /\ mpc = "op_confirm_lock"
    /\ mpc' = "op_send1"
    /\ UNCHANGED <<cfgVars, seqVars, flagVars, lockVars, countVars, fieldVars, bufVars, cstVars,
                   opVars, endVars, tickVars, wpc>>
\* with _data_exchange_lock: (the confirmation exchange)
OpConfirmLock ==
    /\ mpc = "op_confirm_lock"
    /\ _data_exchange_lock = "free"
    /\ _data_exchange_lock' = "main"
    /\ mpc' = "op_send1"
    /\ UNCHANGED <<cfgVars, seqVars, flagVars, countVars, fieldVars, bufVars, cstVars,
                   opVars, endVars, tickVars, wpc>>

\* send_processdata, receive_processdata, send_processdata, receive_processdata;
\* the lock is released after the second receive
OpConfirmExchange ==
    /\ mpc \in {"op_send1", "op_recv1", "op_send2", "op_recv2"}
    /\ mpc' = CASE mpc = "op_send1" -> "op_recv1"
                [] mpc = "op_recv1" -> "op_send2"
                [] mpc = "op_send2" -> "op_recv2"
                [] OTHER -> "op_write_state"
    /\ _data_exchange_lock' = IF mpc = "op_recv2" THEN "free" ELSE _data_exchange_lock
    /\ outstanding' = IF mpc \in {"op_send1", "op_send2"} THEN Sent(outstanding)
                    ELSE Received(outstanding)
    /\ UNCHANGED <<cfgVars, seqVars, flagVars, countVars, fieldVars, bufVars, cstVars,
                   opVars, endVars, tick_ops, wpc>>

\* slave.state = OP_STATE; master.state = OP_STATE; write_wkc = master.write_state();
\* if write_wkc == 0: return False
OpWriteState ==
    /\ mpc = "op_write_state"
    /\ slave_state' = "OP"
    /\ op_requested' = TRUE
    /\ \E write_wkc \in {0, 1} :
          mpc' = IF write_wkc = 0 THEN "cst_mode" ELSE "op_check"
    /\ UNCHANGED <<cfgVars, seqVars, flagVars, lockVars, countVars, fieldVars, bufVars, cstVars,
                   result_state, attempt, op_ok, wait_timed_out, wait_elapsed_ms, endVars, tickVars, wpc>>

\* for attempt in range(max_attempts): result_state = master.state_check(OP_STATE);
\* master.read_state(); break if all in OP, else sleep and retry
OpStateCheck ==
    /\ mpc = "op_check"
    /\ \E rs \in {"SAFEOP", "OP"}, st \in {"SAFEOP", "OP"} :
          /\ result_state' = rs
          /\ slave_state' = st
          /\ IF (st = "OP" /\ rs = "OP") \/ attempt = max_attempts - 1
             THEN mpc' = "op_final" /\ attempt' = attempt
             ELSE mpc' = "op_check" /\ attempt' = attempt + 1
    /\ UNCHANGED <<cfgVars, seqVars, flagVars, lockVars, countVars, fieldVars, bufVars, cstVars,
                   op_ok, wait_timed_out, wait_elapsed_ms, op_requested, endVars, tickVars, wpc>>

\* master.read_state(), the reports, master.read_state();
\* if result_state == OP_STATE: go on to reset the shared fields, else
\* return False (result_state and attempt are locals: they end with the call)
OpFinal ==
    /\ mpc = "op_final"
    /\ \E st \in {"SAFEOP", "OP"} : slave_state' = st
    /\ mpc' = IF result_state = "OP" THEN "op_set_cw" ELSE "cst_mode"
    /\ op_ok' = (result_state = "OP")
    /\ result_state' = "NONE"
    /\ attempt' = 0
    /\ UNCHANGED <<cfgVars, seqVars, flagVars, lockVars, countVars, fieldVars, bufVars, cstVars,
                   wait_timed_out, wait_elapsed_ms, op_requested, endVars, tickVars, wpc>>

\* _thread_controlword = 0x0080
OpSetControlword ==
    /\ mpc = "op_set_cw"
    /\ _thread_controlword' = CW_FAULT_RESET
    /\ mpc' = "op_set_tq"
    /\ UNCHANGED <<cfgVars, seqVars, flagVars, lockVars, countVars, _thread_target_torque,
                   _thread_mode_of_operation, bufVars, cstVars,
                   opVars, endVars, tickVars, wpc>>

\* _thread_target_torque = 0
OpSetTorque ==
    /\ mpc = "op_set_tq"
    /\ _thread_target_torque' = 0
    /\ mpc' = "op_set_mode"
    /\ UNCHANGED <<cfgVars, seqVars, flagVars, lockVars, countVars, _thread_controlword,
                   _thread_mode_of_operation, bufVars, cstVars,
                   opVars, endVars, tickVars, wpc>>

\* _thread_mode_of_operation = 10; time.sleep(0.01); return True
OpSetMode ==
    /\ mpc = "op_set_mode"
    /\ _thread_mode_of_operation' = CST_MODE
    /\ mpc' = "cst_mode"
    /\ UNCHANGED <<cfgVars, seqVars, flagVars, lockVars, countVars, _thread_controlword,
                   _thread_target_torque, bufVars, cstVars,
                   opVars, endVars, tickVars, wpc>>

\* configure_cst_mode: SDO writes of the main thread; every exception is
\* caught inside the function
CstMode ==
    /\ mpc = "cst_mode"
    /\ mpc' = "cst_check"
    /\ UNCHANGED <<cfgVars, seqVars, flagVars, lockVars, countVars, fieldVars, bufVars, cstVars,
                   opVars, endVars, tickVars, wpc>>

\* cyclic_operation_cst: check_slave_states(master, show_all=False)
CstCheck ==
    /\ mpc = "cst_check"
    /\ \E st \in {"SAFEOP", "OP"} : slave_state' = st
    /\ mpc' = "cst_diag_lock"
    /\ UNCHANGED <<cfgVars, seqVars, flagVars, lockVars, countVars, fieldVars, bufVars, cstVars,
                   result_state, attempt, op_ok, wait_timed_out, wait_elapsed_ms, op_requested,
                   endVars, tickVars, wpc>>

\* with _data_exchange_lock: (the diagnosis of the slave)
CstDiagLock ==
    /\ mpc = "cst_diag_lock"
    /\ _data_exchange_lock = "free"
    /\ _data_exchange_lock' = "main"
    /\ mpc' = "cst_diag"
    /\ UNCHANGED <<cfgVars, seqVars, flagVars, countVars, fieldVars, bufVars, cstVars,
                   opVars, endVars, tickVars, wpc>>

\* every fault taken as non-critical, whatever error code is read
NonCriticalFaultAnyCode(sw, code) ==
    /\ sw # NoStatus
    /\ (sw \div FAULT_BIT) % 2 = 1
\* the fault bit is set and sdo_read(0x603F) gives a code of non_critical_error_codes
NonCriticalFault(sw, code) ==
    /\ sw # NoStatus
    /\ (sw \div FAULT_BIT) % 2 = 1
    /\ code = NON_CRITICAL_ERROR_CODE

\* statusword = int.from_bytes(slave.input[0:2]); error code 0x603F;
\* has_non_critical_error; the lock is released
CstDiag ==
    /\ mpc = "cst_diag"
    /\ \E sw \in StatusWords, code \in ErrorCodes :
          /\ has_non_critical_error' = NonCriticalFault(sw, code)
          /\ diag' = <<sw, code>>
    /\ _data_exchange_lock' = "free"
    /\ mpc' = "cst_init"
    /\ UNCHANGED <<cfgVars, seqVars, flagVars, countVars, fieldVars, bufVars, step, fault_cleared,
                   opVars, endVars, tickVars, wpc>>

\* if _thread_controlword != 0x0080: reset the fields; time.sleep(...);
\* step = 0; fault_cleared = False (statusword and error_code of the
\* diagnosis are not used again)
CstInit ==
    /\ mpc = "cst_init"
    /\ IF _thread_controlword # CW_FAULT_RESET
       THEN /\ _thread_controlword' = CW_FAULT_RESET
            /\ _thread_target_torque' = 0
            /\ _thread_mode_of_operation' = CST_MODE
       ELSE UNCHANGED fieldVars
    /\ step' = 0
    /\ fault_cleared' = FALSE
    /\ diag' = <<NoStatus, 0>>
    /\ mpc' = "cst_top"
    /\ UNCHANGED <<cfgVars, seqVars, flagVars, lockVars, countVars, bufVars, has_non_critical_error,
                   opVars, endVars, tickVars, wpc>>

\* while time.time() - start_time < duration: one more iteration
CstTop ==
    /\ mpc = "cst_top"
    /\ step <= RunThreshold(ETHERCAT_CYCLE_TIME_MS, has_non_critical_error) + MaxRunSteps
    /\ mpc' = "cst_status_lock"
    /\ UNCHANGED <<cfgVars, seqVars, flagVars, lockVars, countVars, fieldVars, bufVars, cstVars,
                   opVars, endVars, tickVars, wpc>>

\* the duration has elapsed: the loop is left
CstDurationOver ==
    /\ mpc = "cst_top"
    /\ mpc' = "cst_end"
    /\ UNCHANGED <<cfgVars, seqVars, flagVars, lockVars, countVars, fieldVars, bufVars, cstVars,
                   opVars, endVars, tickVars, wpc>>

\* with _data_exchange_lock: (read of the status word)
CstStatusLock ==
    /\ mpc = "cst_status_lock"
    /\ _data_exchange_lock = "free"
    /\ _data_exchange_lock' = "main"
    /\ mpc' = "cst_status"
    /\ UNCHANGED <<cfgVars, seqVars, flagVars, countVars, fieldVars, bufVars, cstVars,
                   opVars, endVars, tickVars, wpc>>

\* current_statusword = int.from_bytes(master.slaves[0].input[0:2]); the
\* lock is released.  The word read is drawn where it is used, in CstWriteMode
CstStatus ==
    /\ mpc = "cst_status"
    /\ _data_exchange_lock' = "free"
    /\ mpc' = "cst_cw"
    /\ UNCHANGED <<cfgVars, seqVars, flagVars, countVars, fieldVars, bufVars, cstVars,
                   opVars, endVars, tickVars, wpc>>

\* _thread_controlword = <the stage's control word>
CstWriteControlword ==
    /\ mpc = "cst_cw"
    /\ _thread_controlword' =
          StageControlword(step, ETHERCAT_CYCLE_TIME_MS, has_non_critical_error)
    /\ mpc' = "cst_tq"
    /\ UNCHANGED <<cfgVars, seqVars, flagVars, lockVars, countVars, _thread_target_torque,
                   _thread_mode_of_operation, bufVars, cstVars,
                   opVars, endVars, tickVars, wpc>>

\* _thread_target_torque = <the stage's torque>
CstWriteTorque ==
    /\ mpc = "cst_tq"
    /\ _thread_target_torque' =
          StageTorque(step, ETHERCAT_CYCLE_TIME_MS, has_non_critical_error)
    /\ mpc' = "cst_wmode"
    /\ UNCHANGED <<cfgVars, seqVars, flagVars, lockVars, countVars, _thread_controlword,
                   _thread_mode_of_operation, bufVars, cstVars,
                   opVars, endVars, tickVars, wpc>>

\* fault_cleared (Fault Reset branch); _thread_mode_of_operation = 10
CstWriteMode ==
    /\ mpc = "cst_wmode"
    /\ \E sw \in StatusWords :
          fault_cleared' = FaultClearedAfter(fault_cleared, sw, step,
                               ETHERCAT_CYCLE_TIME_MS, has_non_critical_error)
    /\ _thread_mode_of_operation' = CST_MODE
    /\ mpc' = "cst_inc"
    /\ UNCHANGED <<cfgVars, seqVars, flagVars, lockVars, countVars, _thread_controlword,
                   _thread_target_torque, bufVars, step, has_non_critical_error, diag,
                   opVars, endVars, tickVars, wpc>>

\* if step < 25000: step += 1; time.sleep(one cycle)
CstInc ==
    /\ mpc = "cst_inc"
    /\ step' = NextStep(step)
    /\ mpc' = "cst_top"
    /\ UNCHANGED <<cfgVars, seqVars, flagVars, lockVars, countVars, fieldVars, bufVars,
                   has_non_critical_error, diag, fault_cleared,
                   opVars, endVars, tickVars, wpc>>

\* after the loop: check_slave_states(master, show_all=True) and the statistics
CstEnd ==
    /\ mpc = "cst_end"
    /\ \E st \in {"SAFEOP", "OP"} : slave_state' = st
    /\ mpc' = "stop"
    /\ UNCHANGED <<cfgVars, seqVars, flagVars, lockVars, countVars, fieldVars, bufVars, cstVars,
                   result_state, attempt, op_ok, wait_timed_out, wait_elapsed_ms, op_requested,
                   endVars, tickVars, wpc>>

\* stop_data_exchange_thread: _data_exchange_running = False;
\* if the thread is alive: join(timeout=1.0)
StopThread ==
    /\ mpc = "stop"
    /\ _data_exchange_running' = FALSE
    /\ mpc' = IF ThreadAlive THEN "join" ELSE "teardown"
    /\ UNCHANGED <<cfgVars, seqVars, lockVars, countVars, fieldVars, bufVars, cstVars,
                   opVars, endVars, tickVars, wpc>>

\* join returns because the worker has left its function
JoinReturns ==
    /\ mpc = "join"
    /\ ~ThreadAlive
    /\ mpc' = "teardown"
    /\ UNCHANGED <<cfgVars, seqVars, flagVars, lockVars, countVars, fieldVars, bufVars, cstVars,
                   opVars, endVars, tickVars, wpc>>

\* join returns because its timeout of 1.0 s has passed
JoinTimesOut ==
    /\ mpc = "join"
    /\ ThreadAlive
    /\ mpc' = "teardown"
    /\ UNCHANGED <<cfgVars, seqVars, flagVars, lockVars, countVars, fieldVars, bufVars, cstVars,
                   opVars, endVars, tickVars, wpc>>

\* set_slaves_to_safeop_state: slave.state = SAFEOP_STATE; master.write_state()
Teardown ==
    /\ mpc = "teardown"
    /\ slave_state' = "SAFEOP"
    /\ safeop_written' = TRUE
    /\ mpc' = "finally"
    /\ UNCHANGED <<cfgVars, seqVars, flagVars, lockVars, countVars, fieldVars, bufVars, cstVars,
                   result_state, attempt, op_ok, wait_timed_out, wait_elapsed_ms, op_requested,
                   closed, failed_step, tickVars, wpc>>

\* the positions of main, after the worker's start, at which a call into the
\* master can raise out of the called function
RaisingCalls ==
    {"op_enter", "op_send1", "op_recv1", "op_send2", "op_recv2", "op_write_state",
     "op_check", "op_final", "cst_check", "cst_end", "teardown"}

\* a call raises: a with block releases the lock, main's try is left
MainRaise ==
    /\ mpc \in RaisingCalls
    /\ _data_exchange_lock' =
          IF _data_exchange_lock = "main" THEN "free" ELSE _data_exchange_lock
    /\ mpc' = "except"
    /\ UNCHANGED <<cfgVars, seqVars, flagVars, countVars, fieldVars, bufVars, cstVars,
                   opVars, endVars, tickVars, wpc>>

\* the handler leaves main at once, the finally block not run
MainExceptSkipsFinally ==
    /\ mpc = "except"
    /\ mpc' = "end"
    /\ UNCHANGED <<cfgVars, seqVars, flagVars, lockVars, countVars, fieldVars, bufVars, cstVars,
                   opVars, endVars, tickVars, wpc>>

\* except Exception as e: print, traceback
MainExcept ==
    /\ mpc = "except"
    /\ mpc' = "finally"
    /\ UNCHANGED <<cfgVars, seqVars, flagVars, lockVars, countVars, fieldVars, bufVars, cstVars,
                   opVars, endVars, tickVars, wpc>>

\* try: master.close() / except: pass -- where main is after the call,
\* whether close raised or not: at print("Program ended"), its last line
AfterClose(raises) == "end"

\* finally: master.close(), which returns or raises
MainFinally ==
    /\ mpc = "finally"
    /\ closed' = TRUE
    /\ \E raises \in BOOLEAN : mpc' = AfterClose(raises)
    /\ UNCHANGED <<cfgVars, seqVars, flagVars, lockVars, countVars, fieldVars, bufVars, cstVars,
                   opVars, safeop_written, failed_step, tickVars, wpc>>

MainNext ==
    \/ MainOpen \/ MainBringUp \/ StartThread
    \/ OpEnter \/ OpWait \/ OpWaitSleep \/ OpConfirmLock \/ OpConfirmExchange
    \/ OpWriteState \/ OpStateCheck \/ OpFinal
    \/ OpSetControlword \/ OpSetTorque \/ OpSetMode
    \/ CstMode \/ CstCheck \/ CstDiagLock \/ CstDiag \/ CstInit
    \/ CstTop \/ CstDurationOver \/ CstStatusLock \/ CstStatus
    \/ CstWriteControlword \/ CstWriteTorque \/ CstWriteMode \/ CstInc \/ CstEnd
    \/ StopThread \/ JoinReturns \/ JoinTimesOut \/ Teardown
    \/ MainRaise \/ MainExcept \/ MainFinally

(***************************************************************************)
(* The state the functions below leave alone.                              *)
(***************************************************************************)
Slaves == 1..NumSlaves
\* the two threads' state at module load, the worker thread not created
ThreadIdle ==
    /\ ETHERCAT_CYCLE_TIME_MS = 2
    /\ _data_exchange_running = FALSE
    /\ _data_exchange_lock = "free"
    /\ _data_exchange_cycle_count = 0
    /\ _thread_controlword = CW_FAULT_RESET
    /\ _thread_target_torque = 0
    /\ _thread_mode_of_operation = CST_MODE
    /\ output = <<>>
    /\ output_data = <<>>
    /\ wpc = "w_idle"
    /\ step = 0
    /\ has_non_critical_error = FALSE
    /\ diag = <<NoStatus, 0>>
    /\ fault_cleared = FALSE
    /\ slave_state = "NONE"
    /\ result_state = "NONE"
    /\ attempt = 0
    /\ op_ok = FALSE
    /\ wait_timed_out = FALSE
    /\ wait_elapsed_ms = 0
    /\ op_requested = FALSE
    /\ safeop_written = FALSE
    /\ closed = FALSE
    /\ failed_step = "none"
    /\ tick_ops = <<>>
    /\ outstanding = 0
\* cyclic_operation not entered
CyclicIdle ==
    /\ cycle_count = 0
    /\ success_count = 0
    /\ timeout_count = 0
    /\ low_wkc_count = 0
    /\ wkc = 0
    /\ expected_wkc = 0
    /\ recv_calls = 0
    /\ wkc_class = "none"

(***************************************************************************)
(* cyclic_operation: the loop that sends, receives and classifies the      *)
(* working counter.  SpecCyclic runs it from its first iteration.          *)
(***************************************************************************)
\* what receive_processdata returns: -1 (no frame) or a working counter
WorkingCounters == -1..MaxWkc
\* master.expected_wkc
ExpectedWkcs == 0..MaxWkc
\* if wkc == -1: ... elif wkc < master.expected_wkc: ... elif wkc >= master.expected_wkc:
ClassifyLowFirst(w, e) ==
    IF w < e THEN "low_wkc"
    ELSE IF w = -1 THEN "timeout"
    ELSE IF w >= e THEN "success"
    ELSE "none"
Classify(w, e) ==
    IF w = -1 THEN "timeout"
    ELSE IF w < e THEN "low_wkc"
    ELSE IF w >= e THEN "success"
    ELSE "none"

\* while time.time() - start_time < duration: another iteration
CoTop ==
    /\ mpc = "co_top"
    /\ recv_calls < MaxObservations
    /\ mpc' = "co_send"
    /\ UNCHANGED <<threadVars, devVars, upVars, pdoVars, cyclicVars>>

\* while time.time() - start_time < duration: the duration has elapsed
CoDurationOver ==
    /\ mpc = "co_top"
    /\ mpc' = "co_end"
    /\ UNCHANGED <<threadVars, devVars, upVars, pdoVars, cyclicVars>>

\* send_result = master.send_processdata()
CoSend ==
    /\ mpc = "co_send"
    /\ mpc' = "co_recv"
    /\ UNCHANGED <<threadVars, devVars, upVars, pdoVars, cyclicVars>>

\* wkc = master.receive_processdata(timeout=timeout_us)
CoRecv ==
    /\ mpc = "co_recv"
    /\ recv_calls' = recv_calls + 1
    /\ \E w \in WorkingCounters : wkc' = w
    /\ mpc' = "co_classify"
    /\ UNCHANGED <<threadVars, devVars, upVars, pdoVars, cycle_count, success_count,
                   timeout_count, low_wkc_count, expected_wkc, wkc_class>>

\* the if/elif chain without its branch for a low working counter
CoClassifyDropsLow ==
    /\ mpc = "co_classify"
    /\ LET c == Classify(wkc, expected_wkc) IN
          /\ wkc_class' = c
          /\ timeout_count' = IF c = "timeout" THEN timeout_count + 1 ELSE timeout_count
          /\ low_wkc_count' = low_wkc_count
          /\ success_count' = IF c = "success" THEN success_count + 1 ELSE success_count
          /\ cycle_count' = IF c = "success" THEN cycle_count + 1 ELSE cycle_count
    /\ mpc' = "co_sleep"
    /\ UNCHANGED <<threadVars, devVars, upVars, pdoVars, wkc, expected_wkc, recv_calls>>

\* the if/elif chain on wkc and the counters of its branches
CoClassify ==
    /\ mpc = "co_classify"
    /\ LET c == Classify(wkc, expected_wkc) IN
          /\ wkc_class' = c
          /\ timeout_count' = IF c = "timeout" THEN timeout_count + 1 ELSE timeout_count
          /\ low_wkc_count' = IF c = "low_wkc" THEN low_wkc_count + 1 ELSE low_wkc_count
          /\ success_count' = IF c = "success" THEN success_count + 1 ELSE success_count
          /\ cycle_count' = IF c = "success" THEN cycle_count + 1 ELSE cycle_count
    /\ mpc' = "co_sleep"
    /\ UNCHANGED <<threadVars, devVars, upVars, pdoVars, wkc, expected_wkc, recv_calls>>

\* the statistics, the state check every 2 s, time.sleep(one cycle)
CoSleep ==
    /\ mpc = "co_sleep"
    /\ mpc' = "co_top"
    /\ UNCHANGED <<threadVars, devVars, upVars, pdoVars, cyclicVars>>

\* send_processdata, receive_processdata or read_state raises:
\* except Exception as e leaves the loop
CoRaise ==
    /\ mpc \in {"co_send", "co_recv", "co_sleep"}
    /\ recv_calls' = IF mpc = "co_recv" THEN recv_calls + 1 ELSE recv_calls
    /\ mpc' = "co_end"
    /\ UNCHANGED <<threadVars, devVars, upVars, pdoVars, cycle_count, success_count,
                   timeout_count, low_wkc_count, wkc, expected_wkc, wkc_class>>

\* check_slave_states, the final statistics
CoEnd ==
    /\ mpc = "co_end"
    /\ mpc' = "co_done"
    /\ UNCHANGED <<threadVars, devVars, upVars, pdoVars, cyclicVars>>

(***************************************************************************)
(* The devices: the AL state each slave is in (al_state) and the value of  *)
(* slave.state the master holds (slave_states): read_state copies the      *)
(* first into the second, an assignment to slave.state changes the second, *)
(* write_state asks the devices to follow it.                              *)
(***************************************************************************)
\* every slave in Pre-Operational state, and read so
AllIn(st) == [i \in Slaves |-> st]
DevIdle ==
    /\ al_state = AllIn("PREOP")
    /\ slave_states = AllIn("PREOP")
\* slave.state = PREOP_STATE; write_state(); sleep; read_state() for slave i:
\* the outcomes are an exception ("raise", slave.state keeps the assigned
\* value), the device in PREOP at the read ("moved") or not ("stayed")
SwitchOutcomes == {"raise", "moved", "stayed"}
AlAfterSwitch(i, outcome) ==
    IF outcome = "moved" THEN [al_state EXCEPT ![i] = "PREOP"] ELSE al_state
SlaveStatesAfterSwitch(i, outcome) ==
    IF outcome = "raise" THEN [slave_states EXCEPT ![i] = "PREOP"]
    ELSE AlAfterSwitch(i, outcome)

(***************************************************************************)
(* configure_pdo_mapping: the state check, then the SDO writes of every    *)
(* slave, each in its own try.  SpecPdo runs the function from its entry.  *)
(***************************************************************************)
\* v.to_bytes(n, 'little')
ToBytes(v, n) == [b \in 1..n |-> (v \div (256 ^ (b - 1))) % 256]
\* int.from_bytes(data, 'little')
FromBytes(data) ==
    LET F[k \in 0..Len(data)] ==
            IF k = 0 THEN 0 ELSE F[k - 1] + data[k] * (256 ^ (k - 1))
    IN F[Len(data)]
\* one sdo_write of the sequence: object, sub-index, value, size in bytes,
\* whether its except clause has `retval -= 1`, and the number of writes
\* that follow it inside the same try
SdoWrite(index, sub, value, size, counted, skip) ==
    [index |-> index, sub |-> sub, value |-> value, size |-> size,
     counted |-> counted, skip |-> skip]
\* map_object of the four writes to 0x1600: 0x60400010, 0x60710010,
\* 0x60600008, 0x00000008, the torque entry 32 bits long in the variant
RxDescriptorsWideTorque == <<1614807056, 1618018336, 1616904200, 8>>
RxDescriptors == <<1614807056, 1618018320, 1616904200, 8>>
\* map_object of the four writes to 0x1A00: 0x60410010, 0x60640020,
\* 0x606C0020, 0x60770010
TxDescriptors == <<1614872592, 1617166368, 1617690656, 1618411536>>
\* the writes to a map object with the count written before the entries
MapWritesCountFirst(index, descriptors, clear_size) ==
    <<SdoWrite(index, 0, 0, clear_size, FALSE, 0),
      SdoWrite(index, 0, MAP_COUNT, 1, TRUE, 0),
      SdoWrite(index, 1, descriptors[1], 4, TRUE, 0),
      SdoWrite(index, 2, descriptors[2], 4, TRUE, 0),
      SdoWrite(index, 3, descriptors[3], 4, TRUE, 0),
      SdoWrite(index, 4, descriptors[4], 4, TRUE, 0)>>
\* the writes to a map object: clear, the four entries, map_count = 4
MapWrites(index, descriptors, clear_size) ==
    <<SdoWrite(index, 0, 0, clear_size, FALSE, 0),
      SdoWrite(index, 1, descriptors[1], 4, TRUE, 0),
      SdoWrite(index, 2, descriptors[2], 4, TRUE, 0),
      SdoWrite(index, 3, descriptors[3], 4, TRUE, 0),
      SdoWrite(index, 4, descriptors[4], 4, TRUE, 0),
      SdoWrite(index, 0, MAP_COUNT, 1, TRUE, 0)>>
\* the writes to an assignment object: clear, the map's index, count 1
AssignWrites(index, map) ==
    <<SdoWrite(index, 0, 0, 2, FALSE, 0),
      SdoWrite(index, 1, map, 2, TRUE, 0),
      SdoWrite(index, 0, 1, 2, TRUE, 0)>>
\* the torque limits 0x60E0 and 0x60E1, both inside one try
TorqueLimitWrites ==
    <<SdoWrite(POSITIVE_TORQUE_LIMIT, 0, 0, 2, FALSE, 1),
      SdoWrite(NEGATIVE_TORQUE_LIMIT, 0, 0, 2, FALSE, 0)>>
\* the sdo_write calls of one slave, in program order
PdoWrites ==
    MapWrites(RXPDO_MAP, RxDescriptors, 1) \o AssignWrites(RXPDO_ASSIGN, RXPDO_MAP)
    \o MapWrites(TXPDO_MAP, TxDescriptors, 2) \o AssignWrites(TXPDO_ASSIGN, TXPDO_MAP)
    \o TorqueLimitWrites
\* the entries of the object dictionary the function writes
OdKeys == {<<PdoWrites[k].index, PdoWrites[k].sub>> : k \in 1..Len(PdoWrites)}
\* what the devices hold before the function runs
DefaultOd == [i \in Slaves |-> [key \in OdKeys |-> <<255>>]]
\* the dictionary of slave i after write w has succeeded
Stored(dict, i, w) ==
    [dict EXCEPT ![i][<<w.index, w.sub>>] = ToBytes(w.value, w.size)]
\* the writes that have raised so far
FailedWrites == {k \in 1..Len(sdo_log) : ~sdo_log[k][3]}
\* if retval < 0: return False, in the variant never
ReturnsFalseNever(r) == FALSE
ReturnsFalse(r) == r < 0
\* configure_pdo_mapping not entered
PdoIdle ==
    /\ od = DefaultOd
    /\ retval = 0
    /\ sdo_log = <<>>
    /\ pdo_pos = 1
    /\ pdo_result = "none"

\* master.read_state(); all_preop = True
PdoEnter ==
    /\ mpc = "pdo_enter"
    /\ slave_states' = al_state
    /\ all_preop' = TRUE
    /\ slave_i' = 1
    /\ mpc' = "pdo_check"
    /\ UNCHANGED <<threadVars, al_state, pdoVars, cyclicVars, pdo_written, mapVars, dcVars>>

\* one iteration of the loop over the slaves: a slave not in PREOP clears
\* all_preop and is asked to switch; a successful switch sets all_preop
PdoCheck ==
    /\ mpc = "pdo_check"
    /\ IF slave_states[slave_i] = "PREOP"
       THEN UNCHANGED <<al_state, slave_states, all_preop>>
       ELSE \E outcome \in SwitchOutcomes :
               /\ al_state' = AlAfterSwitch(slave_i, outcome)
               /\ slave_states' = SlaveStatesAfterSwitch(slave_i, outcome)
               /\ all_preop' = (outcome = "moved")
    /\ slave_i' = IF slave_i = NumSlaves THEN 1 ELSE slave_i + 1
    /\ mpc' = IF slave_i = NumSlaves THEN "pdo_checked" ELSE "pdo_check"
    /\ UNCHANGED <<threadVars, pdoVars, cyclicVars, pdo_written, mapVars, dcVars>>

\* if not all_preop: return False; retval = 0
PdoChecked ==
    /\ mpc = "pdo_checked"
    /\ IF all_preop
       THEN /\ mpc' = "pdo_write"
            /\ pdo_result' = pdo_result
       ELSE /\ mpc' = "pdo_return"
            /\ pdo_result' = "false"
    /\ retval' = 0
    /\ pdo_pos' = 1
    /\ UNCHANGED <<threadVars, devVars, upVars, cyclicVars, od, sdo_log>>

\* one sdo_write inside its try: it returns or raises; the except clause
\* counts the error where the source does, and a raise leaves the try
PdoWrite ==
    /\ mpc = "pdo_write"
    /\ \E ok \in BOOLEAN :
          LET w == PdoWrites[pdo_pos]
              next == pdo_pos + 1 + (IF ok THEN 0 ELSE w.skip)
          IN /\ ~ok => Cardinality(FailedWrites) < MaxFailures
             /\ sdo_log' = Append(sdo_log, <<slave_i, pdo_pos, ok>>)
             /\ od' = IF ok THEN Stored(od, slave_i, w) ELSE od
             /\ retval' = IF ~ok /\ w.counted THEN retval - 1 ELSE retval
             /\ pdo_written' = TRUE
             /\ IF next <= Len(PdoWrites)
                THEN /\ pdo_pos' = next
                     /\ UNCHANGED <<slave_i, mpc>>
                ELSE /\ pdo_pos' = 1
                     /\ slave_i' = IF slave_i = NumSlaves THEN 1 ELSE slave_i + 1
                     /\ mpc' = IF slave_i = NumSlaves THEN "pdo_result" ELSE "pdo_write"
    /\ UNCHANGED <<threadVars, devVars, cyclicVars, pdo_result, all_preop, mapVars, dcVars>>

\* if retval < 0: return False; return True
PdoResult ==
    /\ mpc = "pdo_result"
    /\ pdo_result' = IF ReturnsFalse(retval) THEN "false" ELSE "true"
    /\ mpc' = "pdo_return"
    /\ UNCHANGED <<threadVars, devVars, upVars, cyclicVars, od, retval, sdo_log, pdo_pos>>

(***************************************************************************)
(* The bring-up of main from configure_pdo_mapping to the return of        *)
(* enter_safeop_state: configure_slaves and enter_safeop_state call by     *)
(* call.  SpecUp starts where enter_preop_state has returned True.         *)
(***************************************************************************)
\* the bring-up not begun
UpIdle ==
    /\ all_preop = TRUE
    /\ slave_i = 1
    /\ pdo_written = FALSE
    /\ config_map_calls = 0
    /\ config_map_ok = FALSE
    /\ fallback_runs = 0
    /\ clear_log = {}
    /\ config_init_reruns = 0
    /\ cs_error = "none"
    /\ config_dc_called = FALSE
    /\ dc_sync_calls = {}
    /\ safeop_requested = FALSE
    /\ dc_failed = {}
    /\ dc_control = <<>>
\* the slave after slave i in a loop over master.slaves
NextSlave(i) == IF i = NumSlaves THEN 1 ELSE i + 1

\* if not configure_pdo_mapping(master): master.close(); return.  The
\* function as a whole: it returns True after its writes, False after
\* writes that failed, False without a write when a slave is not in PREOP,
\* or its first read_state raises.  A True does not tell that every device
\* is in PREOP (the precheck's flag follows the last slave switched), so the
\* devices are left in any of INIT and PREOP
UpPdoMapping ==
    /\ mpc = "up_pdo"
    /\ \E outcome \in {"true", "errors", "not_preop", "raise"} :
          /\ pdo_written' = (outcome \in {"true", "errors"})
          /\ closed' = (outcome \in {"errors", "not_preop"})
          /\ mpc' = CASE outcome = "true" -> "cs_enter"
                      [] outcome = "raise" -> "except"
                      [] OTHER -> "finally"
          /\ IF outcome = "true"
             THEN al_state' \in [Slaves -> {"INIT", "PREOP"}]
             ELSE al_state' = al_state
    /\ UNCHANGED <<sessionVars, safeop_written, failed_step, slave_states, loopVars, mapVars,
                   dcVars, pdoVars, cyclicVars>>

\* configure_slaves: manual_state_change, read_state, all_preop = True
CsEnter ==
    /\ mpc = "cs_enter"
    /\ \E raises \in BOOLEAN :
          IF raises
          THEN /\ mpc' = "except"
               /\ UNCHANGED <<devVars, loopVars>>
          ELSE /\ slave_states' = al_state
               /\ all_preop' = TRUE
               /\ slave_i' = 1
               /\ mpc' = "cs_check"
               /\ UNCHANGED al_state
    /\ UNCHANGED <<threadVars, pdo_written, mapVars, dcVars, pdoVars, cyclicVars>>

\* one iteration of the loop over the slaves, as in configure_pdo_mapping
CsCheck ==
    /\ mpc = "cs_check"
    /\ IF slave_states[slave_i] = "PREOP"
       THEN UNCHANGED <<al_state, slave_states, all_preop>>
       ELSE \E outcome \in SwitchOutcomes :
               /\ al_state' = AlAfterSwitch(slave_i, outcome)
               /\ slave_states' = SlaveStatesAfterSwitch(slave_i, outcome)
               /\ all_preop' = (outcome = "moved")
    /\ slave_i' = NextSlave(slave_i)
    /\ mpc' = IF slave_i = NumSlaves THEN "cs_checked" ELSE "cs_check"
    /\ UNCHANGED <<threadVars, pdo_written, mapVars, dcVars, pdoVars, cyclicVars>>

\* if not all_preop: return False (main: master.close(); return)
CsChecked ==
    /\ mpc = "cs_checked"
    /\ mpc' = IF all_preop THEN "cs_map1" ELSE "finally"
    /\ closed' = ~all_preop
    /\ UNCHANGED <<sessionVars, safeop_written, failed_step, seqVars>>

\* io_map_size = master.config_map(): it returns, or raises into the fallback
CsConfigMap ==
    /\ mpc = "cs_map1"
    /\ config_map_calls' = config_map_calls + 1
    /\ \E ok \in BOOLEAN :
          /\ config_map_ok' = ok
          /\ fallback_runs' = IF ok THEN fallback_runs ELSE fallback_runs + 1
          /\ mpc' = IF ok THEN "cs_return" ELSE "cs_clear"
    /\ slave_i' = 1
    /\ UNCHANGED <<threadVars, devVars, all_preop, pdo_written, clear_log,
                   config_init_reruns, cs_error, dcVars, pdoVars, cyclicVars>>

\* the fallback's writes for one slave: sdo_write(0x1C12, 0, 0) and
\* sdo_write(0x1C13, 0, 0) inside one try with `except: pass`
ClearOutcomes == {"both", "first_raises", "second_raises"}
ClearWrites(i, outcome) ==
    CASE outcome = "both" -> {<<i, RXPDO_ASSIGN, TRUE>>, <<i, TXPDO_ASSIGN, TRUE>>}
      [] outcome = "first_raises" -> {<<i, RXPDO_ASSIGN, FALSE>>}
      [] OTHER -> {<<i, RXPDO_ASSIGN, TRUE>>, <<i, TXPDO_ASSIGN, FALSE>>}
CsClear ==
    /\ mpc = "cs_clear"
    /\ \E outcome \in ClearOutcomes :
          clear_log' = clear_log \cup ClearWrites(slave_i, outcome)
    /\ slave_i' = NextSlave(slave_i)
    /\ mpc' = IF slave_i = NumSlaves THEN "cs_init" ELSE "cs_clear"
    /\ UNCHANGED <<threadVars, devVars, all_preop, pdo_written, config_map_calls,
                   config_map_ok, fallback_runs, config_init_reruns, cs_error,
                   dcVars, pdoVars, cyclicVars>>

\* master.config_init(); time.sleep(0.2); master.read_state(): config_init
\* resets the devices and asks them for PREOP, which a device reaches or not
CsConfigInit ==
    /\ mpc = "cs_init"
    /\ \E outcome \in {"init_raises", "read_raises", "ok"} :
       \E st \in [Slaves -> {"INIT", "PREOP"}] :
          /\ config_init_reruns' =
                IF outcome = "init_raises" THEN config_init_reruns
                ELSE config_init_reruns + 1
          /\ al_state' = IF outcome = "init_raises" THEN al_state ELSE st
          /\ slave_states' = IF outcome = "ok" THEN st ELSE slave_states
          /\ cs_error' = CASE outcome = "init_raises" -> "config_init"
                           [] outcome = "read_raises" -> "read_state"
                           [] OTHER -> cs_error
          /\ mpc' = IF outcome = "ok" THEN "cs_restore" ELSE "cs_giveup"
    /\ slave_i' = 1
    /\ UNCHANGED <<threadVars, all_preop, pdo_written, config_map_calls, config_map_ok,
                   fallback_runs, clear_log, dcVars, pdoVars, cyclicVars>>

\* one iteration of the loop that asks a slave not in PREOP to switch back;
\* nothing is checked afterwards (except: pass)
CsRestore ==
    /\ mpc = "cs_restore"
    /\ IF slave_states[slave_i] = "PREOP"
       THEN UNCHANGED <<al_state, slave_states>>
       ELSE \E outcome \in SwitchOutcomes :
               /\ al_state' = AlAfterSwitch(slave_i, outcome)
               /\ slave_states' = SlaveStatesAfterSwitch(slave_i, outcome)
    /\ slave_i' = NextSlave(slave_i)
    /\ mpc' = IF slave_i = NumSlaves THEN "cs_map2" ELSE "cs_restore"
    /\ UNCHANGED <<threadVars, all_preop, pdo_written, mapVars, dcVars, pdoVars, cyclicVars>>

\* the second config_map with its exception swallowed
CsConfigMapAgainSwallowed ==
    /\ mpc = "cs_map2"
    /\ config_map_calls' = config_map_calls + 1
    /\ \E ok \in BOOLEAN :
          /\ config_map_ok' = ok
          /\ cs_error' = IF ok THEN cs_error ELSE "config_map"
          /\ mpc' = "cs_return"
    /\ UNCHANGED <<threadVars, devVars, loopVars, pdo_written, fallback_runs, clear_log,
                   config_init_reruns, dcVars, pdoVars, cyclicVars>>

\* the second config_map with the fallback entered again when it raises
CsConfigMapAgainRetried ==
    /\ mpc = "cs_map2"
    /\ config_map_calls' = config_map_calls + 1
    /\ \E ok \in BOOLEAN :
          /\ config_map_ok' = ok
          /\ cs_error' = cs_error
          /\ mpc' = IF ok THEN "cs_return" ELSE "cs_map2"
    /\ UNCHANGED <<threadVars, devVars, loopVars, pdo_written, fallback_runs, clear_log,
                   config_init_reruns, dcVars, pdoVars, cyclicVars>>

\* io_map_size = master.config_map() (the second call): it returns, or
\* raises into `except Exception as e2`
CsConfigMapAgain ==
    /\ mpc = "cs_map2"
    /\ config_map_calls' = config_map_calls + 1
    /\ \E ok \in BOOLEAN :
          /\ config_map_ok' = ok
          /\ cs_error' = IF ok THEN cs_error ELSE "config_map"
          /\ mpc' = IF ok THEN "cs_return" ELSE "cs_giveup"
    /\ UNCHANGED <<threadVars, devVars, loopVars, pdo_written, fallback_runs, clear_log,
                   config_init_reruns, dcVars, pdoVars, cyclicVars>>

\* except Exception as e2: the slaves are asked back to PREOP (errors
\* ignored), then raise: the exception leaves configure_slaves
CsGiveUp ==
    /\ mpc = "cs_giveup"
    /\ \E st \in [Slaves -> {"INIT", "PREOP"}] :
          /\ \A i \in Slaves : st[i] \in {al_state[i], "PREOP"}
          /\ al_state' = st
          /\ slave_states' = st
    /\ mpc' = "except"
    /\ UNCHANGED <<threadVars, upVars, pdoVars, cyclicVars>>

\* the display of the buffer sizes; return True
CsReturn ==
    /\ mpc = "cs_return"
    /\ mpc' = "so_enter"
    /\ UNCHANGED <<threadVars, seqVars>>

\* enter_safeop_state: read_state; a slave not in PREOP: return False
SoEnter ==
    /\ mpc = "so_enter"
    /\ \E raises \in BOOLEAN :
          IF raises
          THEN /\ mpc' = "except"
               /\ UNCHANGED <<slave_states, closed>>
          ELSE /\ slave_states' = al_state
               /\ closed' = (al_state # AllIn("PREOP"))
               /\ mpc' = IF al_state = AllIn("PREOP") THEN "so_dc" ELSE "finally"
    /\ UNCHANGED <<sessionVars, safeop_written, failed_step, al_state, upVars, pdoVars, cyclicVars>>

\* dc_result = master.config_dc(): a False result and an exception are
\* printed and passed over
SoConfigDc ==
    /\ mpc = "so_dc"
    /\ config_dc_called' = TRUE
    /\ \E outcome \in {"true", "false", "raise"} :
          dc_failed' = IF outcome = "true" THEN dc_failed
                       ELSE dc_failed \cup {<<"config_dc", 0>>}
    /\ slave_i' = 1
    /\ mpc' = "so_sync"
    /\ UNCHANGED <<threadVars, devVars, all_preop, pdo_written, mapVars,
                   dc_sync_calls, safeop_requested, dc_control, pdoVars, cyclicVars>>

\* dc_sync with its exception not caught
SoDcSyncFatal ==
    /\ mpc = "so_sync"
    /\ dc_sync_calls' = dc_sync_calls \cup {slave_i}
    /\ \E raises \in BOOLEAN :
          /\ dc_failed' = IF raises THEN dc_failed \cup {<<"dc_sync", slave_i>>}
                          ELSE dc_failed
          /\ mpc' = IF raises THEN "except"
                    ELSE IF slave_i = NumSlaves THEN "so_write" ELSE "so_sync"
    /\ slave_i' = NextSlave(slave_i)
    /\ UNCHANGED <<threadVars, devVars, all_preop, pdo_written, mapVars,
                   config_dc_called, safeop_requested, dc_control, pdoVars, cyclicVars>>
\* slave.dc_sync(act=True, ...) for one slave, an exception printed and
\* passed over
SoDcSync ==
    /\ mpc = "so_sync"
    /\ dc_sync_calls' = dc_sync_calls \cup {slave_i}
    /\ \E raises \in BOOLEAN :
          dc_failed' = IF raises THEN dc_failed \cup {<<"dc_sync", slave_i>>}
                       ELSE dc_failed
    /\ slave_i' = NextSlave(slave_i)
    /\ mpc' = IF slave_i = NumSlaves THEN "so_write" ELSE "so_sync"
    /\ UNCHANGED <<threadVars, devVars, all_preop, pdo_written, mapVars,
                   config_dc_called, safeop_requested, dc_control, pdoVars, cyclicVars>>

\* master.state = SAFEOP_STATE; master.write_state(): the request is
\* written and the devices follow it or not, or write_state raises
SoWriteState ==
    /\ mpc = "so_write"
    /\ \E outcome \in {"raise", "reached", "not_reached"} :
          /\ safeop_requested' = (outcome # "raise")
          /\ al_state' = IF outcome = "reached" THEN AllIn("SAFEOP") ELSE al_state
          /\ mpc' = IF outcome = "raise" THEN "except" ELSE "so_check"
    /\ UNCHANGED <<threadVars, slave_states, loopVars, pdo_written, mapVars,
                   config_dc_called, dc_sync_calls, dc_failed, dc_control, pdoVars, cyclicVars>>

\* result_state = master.state_check(SAFEOP_STATE, ...): the lowest state
\* of the devices; not SAFEOP: return False
SoStateCheck ==
    /\ mpc = "so_check"
    /\ \E raises \in BOOLEAN :
          IF raises
          THEN /\ mpc' = "except"
               /\ UNCHANGED closed
          ELSE /\ closed' = (al_state # AllIn("SAFEOP"))
               /\ mpc' = IF al_state = AllIn("SAFEOP") THEN "so_verify" ELSE "finally"
    /\ UNCHANGED <<sessionVars, safeop_written, failed_step, seqVars>>

\* what the read of 0x1C32:0x01 gives for a slave: 2 (activated), 1 (enabled
\* only), another value, or nothing (-1: the read raised or came back empty)
DcControls == {2, 1, 0, -1}
\* dc_config_ok after the loop over the slaves
DcConfigOk(ctl) == \A i \in Slaves : ctl[i] = 2
\* read_state (which can raise), then the reads of 0x1C32 (whatever they
\* give, only warnings are printed), the state machine information (whose
\* own read_state can raise); return True
SoVerify ==
    /\ mpc = "so_verify"
    /\ \E raises \in {"no", "read_state", "info"}, ctl \in [Slaves -> DcControls] :
          /\ mpc' = IF raises = "no" THEN "start_thread" ELSE "except"
          /\ slave_states' = IF raises = "read_state" THEN slave_states ELSE al_state
          /\ dc_control' = IF raises = "read_state" THEN dc_control ELSE ctl
    /\ UNCHANGED <<threadVars, al_state, loopVars, pdo_written, mapVars,
                   config_dc_called, dc_sync_calls, safeop_requested, dc_failed,
                   pdoVars, cyclicVars>>

\* the functions that run before or without the worker thread, not entered
SeqIdle == DevIdle /\ UpIdle /\ PdoIdle /\ CyclicIdle

(***************************************************************************)
(* Spec: a session of main.                                                *)
(***************************************************************************)
\* the module-level globals as the module sets them, main about to open the adapter
Init ==
    /\ ETHERCAT_CYCLE_TIME_MS \in SlowPeriods
    /\ _data_exchange_running = FALSE
    /\ _data_exchange_lock = "free"
    /\ _data_exchange_cycle_count = 0
    /\ _thread_controlword = CW_FAULT_RESET
    /\ _thread_target_torque = 0
    /\ _thread_mode_of_operation = CST_MODE
    /\ output = <<>>
    /\ output_data = <<>>
    /\ mpc = "open"
    /\ wpc = "w_idle"
    /\ step = 0
    /\ has_non_critical_error = FALSE
    /\ diag = <<NoStatus, 0>>
    /\ fault_cleared = FALSE
    /\ slave_state = "INIT"
    /\ result_state = "NONE"
    /\ attempt = 0
    /\ op_ok = FALSE
    /\ wait_timed_out = FALSE
    /\ wait_elapsed_ms = 0
    /\ op_requested = FALSE
    /\ safeop_written = FALSE
    /\ closed = FALSE
    /\ failed_step = "none"
    /\ tick_ops = <<>>
    /\ outstanding = 0
    /\ SeqIdle

Next == MainNext \/ WorkerNext

Spec == Init /\ [][Next]_vars

(***************************************************************************)
(* SpecOp: start_data_exchange_thread and set_slaves_to_op_state_cst       *)
(* beside the worker, from main's call of the first to the return of the   *)
(* second, the worker followed for wait_cycles + MaxCycles completed       *)
(* cycles.  InitOp is the state in which enter_safeop_state has returned   *)
(* True.                                                                   *)
(***************************************************************************)
InitOp ==
    /\ ETHERCAT_CYCLE_TIME_MS \in SlowPeriods
    /\ _data_exchange_running = FALSE
    /\ _data_exchange_lock = "free"
    /\ _data_exchange_cycle_count = 0
    /\ _thread_controlword = CW_FAULT_RESET
    /\ _thread_target_torque = 0
    /\ _thread_mode_of_operation = CST_MODE
    /\ output = MappedOutput
    /\ output_data = <<>>
    /\ mpc = "start_thread"
    /\ wpc = "w_idle"
    /\ step = 0
    /\ has_non_critical_error = FALSE
    /\ diag = <<NoStatus, 0>>
    /\ fault_cleared = FALSE
    /\ slave_state = "SAFEOP"
    /\ result_state = "NONE"
    /\ attempt = 0
    /\ op_ok = FALSE
    /\ wait_timed_out = FALSE
    /\ wait_elapsed_ms = 0
    /\ op_requested = FALSE
    /\ safeop_written = FALSE
    /\ closed = FALSE
    /\ failed_step = "none"
    /\ tick_ops = <<>>
    /\ outstanding = 0
    /\ SeqIdle

WorkerTopOp == WorkerLoopTop(wait_cycles + MaxCycles)

\* the main thread's steps in SpecOp
MainNextOp ==
    \/ StartThread
    \/ OpEnter \/ OpWait \/ OpWaitSleep \/ OpConfirmLock \/ OpConfirmExchange
    \/ OpWriteState \/ OpStateCheck \/ OpFinal
    \/ OpSetControlword \/ OpSetTorque \/ OpSetMode
    \/ MainRaise

NextOp == MainNextOp \/ WorkerTopOp \/ WorkerBody

SpecOp == InitOp /\ [][NextOp]_vars

\* SpecOp with both threads scheduled (the interpreter switches threads, a
\* sleep returns) and a process-data call that is tried again and again
\* returning at some point instead of raising every time
FairSpecOp ==
    /\ SpecOp
    /\ WF_vars(MainNextOp)
    /\ WF_vars(WorkerTopOp \/ WorkerBody)
    /\ SF_vars(WorkerRecv)
    /\ SF_vars(WorkerSend)

(***************************************************************************)
(* SpecCst: the loop of cyclic_operation_cst beside the worker's tick.     *)
(***************************************************************************)
\* the state at the top of the first loop iteration: the fields as
\* set_slaves_to_op_state_cst left them, the worker between two ticks
InitCst ==
    /\ ETHERCAT_CYCLE_TIME_MS \in Periods
    /\ _data_exchange_running = TRUE
    /\ _data_exchange_lock = "free"
    /\ _data_exchange_cycle_count = 0
    /\ _thread_controlword = CW_FAULT_RESET
    /\ _thread_target_torque = 0
    /\ _thread_mode_of_operation = CST_MODE
    /\ output = EncodeFrame([i \in 1..FRAME_LEN |-> 0], CW_FAULT_RESET, 0, CST_MODE)
    /\ output_data = output
    /\ mpc = "cst_stage"
    /\ wpc = "w_sleep"
    /\ step = 0
    /\ has_non_critical_error \in BOOLEAN
    /\ diag = <<NoStatus, 0>>
    /\ fault_cleared = FALSE
    /\ slave_state = "OP"
    /\ result_state = "OP"
    /\ attempt = 0
    /\ op_ok = TRUE
    /\ wait_timed_out = FALSE
    /\ wait_elapsed_ms = 0
    /\ op_requested = TRUE
    /\ safeop_written = FALSE
    /\ closed = FALSE
    /\ failed_step = "none"
    /\ tick_ops = <<>>
    /\ outstanding = 1
    /\ SeqIdle

\* one pass over the state machine: read the status word, write the stage's
\* control word, torque and mode
CstStage ==
    /\ mpc = "cst_stage"
    /\ \/ step <= RunThreshold(ETHERCAT_CYCLE_TIME_MS, has_non_critical_error) + MaxRunSteps
       \/ step >= step_limit - MaxRunSteps
    /\ \E sw \in StatusWords :
          fault_cleared' = FaultClearedAfter(fault_cleared, sw, step,
                               ETHERCAT_CYCLE_TIME_MS, has_non_critical_error)
    /\ _thread_controlword' =
          StageControlword(step, ETHERCAT_CYCLE_TIME_MS, has_non_critical_error)
    /\ _thread_target_torque' =
          StageTorque(step, ETHERCAT_CYCLE_TIME_MS, has_non_critical_error)
    /\ _thread_mode_of_operation' = CST_MODE
    /\ mpc' = "cst_advance"
    /\ UNCHANGED <<cfgVars, seqVars, flagVars, lockVars, countVars, bufVars, wpc,
                   step, has_non_critical_error, diag, opVars, endVars, tickVars>>

\* if step < 25000: step += 1; time.sleep(one cycle)
CstAdvance ==
    /\ mpc = "cst_advance"
    /\ step' = NextStep(step)
    /\ mpc' = "cst_stage"
    /\ UNCHANGED <<cfgVars, seqVars, flagVars, lockVars, countVars, fieldVars, bufVars, wpc,
                   has_non_critical_error, diag, fault_cleared, opVars, endVars, tickVars>>

\* while time.time() - start_time < duration: the duration has elapsed
CstLoopExit ==
    /\ mpc = "cst_stage"
    /\ mpc' = "cst_done"
    /\ UNCHANGED <<cfgVars, seqVars, flagVars, lockVars, countVars, fieldVars, bufVars, wpc, cstVars,
                   opVars, endVars, tickVars>>

\* one tick of the worker, taken as a whole: receive, encode, send
WorkerTick ==
    /\ wpc = "w_sleep"
    /\ _data_exchange_running
    /\ _data_exchange_lock = "free"
    /\ output' = EncodeFrame(output, _thread_controlword, _thread_target_torque,
                             _thread_mode_of_operation)
    /\ output_data' = output'
    /\ outstanding' = Sent(Received(outstanding))
    /\ UNCHANGED <<cfgVars, seqVars, flagVars, lockVars, countVars, fieldVars, cstVars, mpc, wpc,
                   opVars, endVars, tick_ops>>

NextCst == CstStage \/ CstAdvance \/ CstLoopExit \/ WorkerTick

SpecCst == InitCst /\ [][NextCst]_vars

(***************************************************************************)
(* SpecUp: the bring-up of main after enter_preop_state.                   *)
(***************************************************************************)
InitUp ==
    /\ ThreadIdle
    /\ SeqIdle
    /\ mpc = "up_pdo"

NextUp ==
    \/ UpPdoMapping
    \/ CsEnter \/ CsCheck \/ CsChecked \/ CsConfigMap \/ CsClear \/ CsConfigInit
    \/ CsRestore \/ CsConfigMapAgain \/ CsGiveUp \/ CsReturn
    \/ SoEnter \/ SoConfigDc \/ SoDcSync \/ SoWriteState \/ SoStateCheck \/ SoVerify
    \/ MainExcept \/ MainFinally

SpecUp == InitUp /\ [][NextUp]_vars

(***************************************************************************)
(* SpecPdo: configure_pdo_mapping from its entry, the devices in any of    *)
(* INIT and PREOP.                                                         *)
(***************************************************************************)
InitPdo ==
    /\ ThreadIdle
    /\ UpIdle
    /\ PdoIdle
    /\ CyclicIdle
    /\ al_state \in [Slaves -> {"INIT", "PREOP"}]
    /\ slave_states = al_state
    /\ mpc = "pdo_enter"

NextPdo == PdoEnter \/ PdoCheck \/ PdoChecked \/ PdoWrite \/ PdoResult

SpecPdo == InitPdo /\ [][NextPdo]_vars

(***************************************************************************)
(* SpecCyclic: the loop of cyclic_operation.                               *)
(***************************************************************************)
\* the locals as lines 1444..1452 set them
InitCyclic ==
    /\ ThreadIdle
    /\ DevIdle
    /\ UpIdle
    /\ PdoIdle
    /\ cycle_count = 0
    /\ success_count = 0
    /\ timeout_count = 0
    /\ low_wkc_count = 0
    /\ wkc = 0
    /\ expected_wkc \in ExpectedWkcs
    /\ recv_calls = 0
    /\ wkc_class = "none"
    /\ mpc = "co_top"

NextCyclic ==
    \/ CoTop \/ CoDurationOver \/ CoSend \/ CoRecv \/ CoClassify \/ CoSleep
    \/ CoRaise \/ CoEnd

SpecCyclic == InitCyclic /\ [][NextCyclic]_vars

(***************************************************************************)
(* Properties.                                                             *)
(***************************************************************************)
\* the locked positions of a worker tick
InTick == {"w_recv", "w_enc_cw", "w_enc_tq", "w_enc_mode", "w_send"}
\* the positions at which the worker is about to encode a field
AtEncode == {"w_init_cw", "w_init_tq", "w_init_mode", "w_enc_cw", "w_enc_tq", "w_enc_mode"}
\* the positions at which main is about to call send or receive
MainAtExchange == {"op_send1", "op_recv1", "op_send2", "op_recv2"}
\* the five stages of the enable sequence as (control word, torque) pairs
StagePairs == <<  <<CW_FAULT_RESET, 0>>, <<CW_SHUTDOWN, 0>>, <<CW_SWITCH_ON, 0>>,
                  <<CW_ENABLE_OPERATION, 0>>, <<CW_ENABLE_OPERATION, RUN_TORQUE>>  >>
\* the stage a pair belongs to, 0 if none
StageIndex(cw, tq) ==
    IF \E i \in 1..5 : StagePairs[i] = <<cw, tq>>
    THEN CHOOSE i \in 1..5 : StagePairs[i] = <<cw, tq>>
    ELSE 0

\* C1: for every period of 1..10 ms and either value of the non-critical
\* flag, as long as step <= fault_reset_duration + int(3000 / period) the
\* field _thread_target_torque is 0 and the frame the worker has encoded
\* carries torque 0 (SpecCst).
C1_NoTorqueBeforeRunning ==
    step <= FaultResetDuration(ETHERCAT_CYCLE_TIME_MS, has_non_critical_error)
            + (3000 \div ETHERCAT_CYCLE_TIME_MS)
    => /\ _thread_target_torque = 0
       /\ FrameTorque(output) = 0
       /\ FrameTorque(output_data) = 0

\* the last step of the Enable Operation stage has been written and the
\* worker has put its frame (0x000F, torque 0) on the bus
C1_Witness ==
    /\ mpc = "cst_advance"
    /\ step = RunThreshold(ETHERCAT_CYCLE_TIME_MS, has_non_critical_error)
    /\ FrameControlword(output_data) = CW_ENABLE_OPERATION
    /\ FrameTorque(output_data) = 0
    /\ ETHERCAT_CYCLE_TIME_MS = 1

\* the (control word, torque) pair that C2 as stated expects after the
\* write of step s: 2000, 500, 500 and 500 cycles counted from step 0
C2_StatedPair(s) ==
    IF s < 2000 THEN <<128, 0>>
    ELSE IF s < 2500 THEN <<6, 0>>
    ELSE IF s < 3000 THEN <<7, 0>>
    ELSE IF s < 3500 THEN <<15, 0>>
    ELSE <<15, 50>>
\* the pair the loop writes at step s: the first stage lasts 2001 cycles
\* (steps 0..2000), every boundary is one step later
C2_WrittenPair(s) ==
    IF s <= 2000 THEN <<128, 0>>
    ELSE IF s <= 2500 THEN <<6, 0>>
    ELSE IF s <= 3000 THEN <<7, 0>>
    ELSE IF s <= 3500 THEN <<15, 0>>
    ELSE <<15, 50>>
\* a 2 ms period without non-critical fault, the fields of this step written
C2_Case ==
    /\ ETHERCAT_CYCLE_TIME_MS = 2
    /\ ~has_non_critical_error
    /\ mpc = "cst_advance"

C4_FieldWritesAtomic ==
    [][(mpc \in {"cst_tq", "op_set_tq"}) => ~(wpc \in AtEncode /\ wpc' # wpc)]_vars

\* C5: the process-data steps of a worker tick are taken in the order
\* receive, encode, send, the worker holds _data_exchange_lock at every
\* position of the tick, and while the worker is between its encode and its
\* send the main thread is not at a send or receive of its own (Spec).
C5_TickUnderLock ==
    /\ \E n \in 0..Len(TickOrder) : tick_ops = SubSeq(TickOrder, 1, n)
    /\ wpc \in InTick => _data_exchange_lock = "worker"
    /\ wpc = "w_send" => /\ tick_ops = <<"recv", "encode">>
                         /\ mpc \notin MainAtExchange
    /\ mpc \in MainAtExchange => _data_exchange_lock = "main"

\* the worker has encoded and not yet sent while the main thread waits for
\* the lock of its confirmation exchange
C5_Witness ==
    /\ wpc = "w_send"
    /\ mpc = "op_confirm_lock"
    /\ tick_ops = <<"recv", "encode">>

\* C6: the worker does not hold _data_exchange_lock while it sleeps, in the
\* period sleep as in the backoff sleep after an exception (Spec).
C6_NoLockWhileSleeping ==
    wpc \in {"w_sleep", "w_backoff"} => _data_exchange_lock # "worker"

\* the worker is in the backoff sleep after an exception in the locked
\* section and the main thread has taken the lock
C6_Witness ==
    /\ wpc = "w_backoff"
    /\ _data_exchange_lock = "main"

C8_StopSeenAtLoopTest ==
    [][/\ (wpc' = "w_lock" /\ wpc # "w_lock")
             => (wpc = "w_top" /\ _data_exchange_running)
       /\ (wpc' = "w_done" /\ wpc # "w_done")
             => (wpc = "w_top" /\ ~_data_exchange_running)
       /\ wpc = "w_done" => (wpc' = "w_done" /\ tick_ops' = tick_ops)]_vars

\* the worker has sent in its last tick, seen the stop flag and returned,
\* and the main thread has gone on to the end
C8_Witness ==
    /\ wpc = "w_done"
    /\ tick_ops = <<"recv", "encode", "send">>
    /\ mpc = "end"

\* C9 as stated: master.close() and the final SAFEOP request are never
\* executed while the worker thread is still running (Spec).  Violated: an
\* exception after start_data_exchange_thread reaches finally with the
\* flag still true, and join(timeout=1.0) can return with the thread alive.
C9_TeardownAfterWorker ==
    (closed \/ safeop_written) => ~ThreadAlive

\* C10: the OP request is issued only after the worker thread has been
\* started and after _data_exchange_cycle_count has reached wait_cycles
\* (300) or one second has elapsed in the wait loop (SpecOp).
C10_OpAfterWarmUp ==
    op_requested =>
        /\ wpc # "w_idle"
        /\ \/ _data_exchange_cycle_count >= 300
           \/ wait_timed_out

\* the OP request has been issued after 300 cycles, without the timeout
C10_Witness ==
    /\ op_requested
    /\ ~wait_timed_out
    /\ _data_exchange_cycle_count >= 300
    /\ wpc # "w_idle"

\* C11: in the bring-up of main the PDO mapping writes precede every
\* config_map, a config_map that returned precedes config_dc, config_dc
\* precedes every dc_sync, all slaves' dc_sync precede the SAFEOP request,
\* and the SAFEOP request is written only if config_map has returned
\* (SpecUp).
C11_BringUpOrder ==
    /\ config_map_calls > 0 => pdo_written
    /\ config_dc_called => (config_map_calls > 0 /\ config_map_ok)
    /\ dc_sync_calls # {} => config_dc_called
    /\ safeop_requested => /\ pdo_written
                           /\ config_map_ok
                           /\ config_dc_called
                           /\ dc_sync_calls = Slaves

\* the SAFEOP request has been written in a run in which the first
\* config_map failed and the second one returned
C11_Witness ==
    /\ safeop_requested
    /\ fallback_runs = 1
    /\ config_map_calls = 2

\* the sdo_write calls made so far for object `index` of slave i, each as
\* <<sub-index, value>>
WritesTo(i, index) ==
    LET sel == SelectSeq(sdo_log,
                   LAMBDA e : e[1] = i /\ PdoWrites[e[2]].index = index)
    IN [k \in 1..Len(sel) |-> <<PdoWrites[sel[k][2]].sub, PdoWrites[sel[k][2]].value>>]
\* a sequence is an initial part of another
IsPrefix(a, b) == Len(a) <= Len(b) /\ a = SubSeq(b, 1, Len(a))
\* the sub-indexes of a sequence of writes, the value kept for sub-index 0
CountsAndSubs(ws) ==
    [k \in 1..Len(ws) |-> IF ws[k][1] = 0 THEN ws[k] ELSE <<ws[k][1]>>]

\* C12: for every slave the writes to each map object (0x1600, 0x1A00) are
\* issued in the order sub-index 0 = 0, sub-indexes 1, 2, 3, 4, sub-index
\* 0 = 4, and the writes to each assignment object (0x1C12, 0x1C13) in the
\* order sub-index 0 = 0, sub-index 1 = the map's index, sub-index 0 = 1,
\* whichever writes fail (SpecPdo).
C12_WriteOrder ==
    \A i \in Slaves :
       /\ \A map \in {5632, 6656} :
             IsPrefix(CountsAndSubs(WritesTo(i, map)),
                      << <<0, 0>>, <<1>>, <<2>>, <<3>>, <<4>>, <<0, 4>> >>)
       /\ IsPrefix(WritesTo(i, 7186), << <<0, 0>>, <<1, 5632>>, <<0, 1>> >>)
       /\ IsPrefix(WritesTo(i, 7187), << <<0, 0>>, <<1, 6656>>, <<0, 1>> >>)

\* every write of every slave has been issued and some of them have failed
C12_Witness ==
    /\ mpc = "pdo_return"
    /\ Len(sdo_log) = NumSlaves * Len(PdoWrites)
    /\ FailedWrites # {}

\* the descriptors C13 names: 0x60400010, 0x60710010, 0x60600008,
\* 0x00000008 and 0x60410010, 0x60640020, 0x606C0020, 0x60770010
C13_ReceiveMap == <<1614807056, 1618018320, 1616904200, 8>>
C13_TransmitMap == <<1614872592, 1617166368, 1617690656, 1618411536>>
\* the sum of the bit lengths (low bytes) of four descriptors
BitLength(d) == (d[1] % 256) + (d[2] % 256) + (d[3] % 256) + (d[4] % 256)
\* the entry writes (sub-index > 0) issued to object `index`, as
\* <<sub-index, value>>
EntryWrites(index) ==
    {<<PdoWrites[sdo_log[k][2]].sub, PdoWrites[sdo_log[k][2]].value>> :
        k \in {j \in 1..Len(sdo_log) : /\ PdoWrites[sdo_log[j][2]].index = index
                                       /\ PdoWrites[sdo_log[j][2]].sub > 0}}

\* C13: the entries written to 0x1600 are the four descriptors 0x60400010,
\* 0x60710010, 0x60600008, 0x00000008 at sub-indexes 1..4, 48 bits in all,
\* the 6 bytes of the worker's frame; the entries written to 0x1A00 are
\* 0x60410010, 0x60640020, 0x606C0020, 0x60770010, 96 bits in all, the 12
\* bytes of input the state machine asks for (SpecPdo).
C13_FixedMaps ==
    /\ EntryWrites(5632) \subseteq {<<n, C13_ReceiveMap[n]>> : n \in 1..4}
    /\ EntryWrites(6656) \subseteq {<<n, C13_TransmitMap[n]>> : n \in 1..4}
    /\ mpc = "pdo_return" /\ pdo_written =>
          /\ EntryWrites(5632) = {<<n, C13_ReceiveMap[n]>> : n \in 1..4}
          /\ EntryWrites(6656) = {<<n, C13_TransmitMap[n]>> : n \in 1..4}
    /\ BitLength(C13_ReceiveMap) = 48
    /\ 48 = 8 * FRAME_LEN
    /\ BitLength(C13_TransmitMap) = 96
    /\ 96 = 8 * INPUT_LEN

\* the function has returned True with both maps written for every slave
C13_Witness ==
    /\ mpc = "pdo_return"
    /\ pdo_result = "true"
    /\ \A i \in Slaves : od[i][<<5632, 2>>] = ToBytes(1618018320, 4)

\* the writes of entries (sub-index > 0) of object `index` of slave i that
\* have returned
EntriesStored(i, index) ==
    {k \in 1..Len(sdo_log) : /\ sdo_log[k][1] = i
                             /\ sdo_log[k][3]
                             /\ PdoWrites[sdo_log[k][2]].index = index
                             /\ PdoWrites[sdo_log[k][2]].sub > 0}

\* C14: with a dictionary that keeps every write that returned, after
\* configure_pdo_mapping has returned True sub-index 0 of each map of each
\* slave reads 4, the number of entries written, and each entry 1..4 reads
\* the descriptor written to it (SpecPdo).
C14_RoundTrip ==
    (mpc = "pdo_return" /\ pdo_result = "true") =>
        \A i \in Slaves :
           /\ FromBytes(od[i][<<RXPDO_MAP, 0>>]) = Cardinality(EntriesStored(i, RXPDO_MAP))
           /\ FromBytes(od[i][<<RXPDO_MAP, 0>>]) = 4
           /\ \A n \in 1..4 : FromBytes(od[i][<<RXPDO_MAP, n>>]) = RxDescriptors[n]
           /\ FromBytes(od[i][<<TXPDO_MAP, 0>>]) = Cardinality(EntriesStored(i, TXPDO_MAP))
           /\ FromBytes(od[i][<<TXPDO_MAP, 0>>]) = 4
           /\ \A n \in 1..4 : FromBytes(od[i][<<TXPDO_MAP, n>>]) = TxDescriptors[n]

\* the function has returned True although a write (a clear or a torque
\* limit) failed
C14_Witness ==
    /\ mpc = "pdo_return"
    /\ pdo_result = "true"
    /\ FailedWrites # {}

\* C15 as stated: whichever writes fail, every write of the sequence of
\* every slave has been attempted when the loop over the slaves is done
\* (SpecPdo).  Violated: 0x60E0 and 0x60E1 are written inside one try, a
\* failure of the first skips the second.
C15_EveryWriteAttempted ==
    (mpc \in {"pdo_result", "pdo_return"} /\ pdo_written) =>
        \A i \in Slaves : \A k \in 1..Len(PdoWrites) :
            \E j \in 1..Len(sdo_log) : sdo_log[j][1] = i /\ sdo_log[j][2] = k

\* C16 as stated: every failed write decrements retval, and with all
\* slaves in PREOP the function returns False exactly if a write failed
\* (SpecPdo).  Violated: the clear writes and the torque limit writes have
\* no `retval -= 1`.
C16_ErrorCounter ==
    /\ retval = 0 - Cardinality(FailedWrites)
    /\ (mpc = "pdo_return" /\ pdo_written /\ al_state = AllIn("PREOP")) =>
          (pdo_result = "false" <=> FailedWrites # {})

\* the fallback of configure_slaves is over
FallbackOver == fallback_runs > 0 /\ mpc \in {"cs_giveup", "cs_return"}

\* C17 as stated: after a failed first config_map the fallback runs once,
\* both assignment counts are cleared for every slave, config_init is
\* re-run and config_map is called a second time; not more than two calls;
\* a second call that returns makes configure_slaves return True (SpecUp).
\* Violated: config_init or read_state raising ends the fallback before the
\* second config_map, and a clear write that raises is passed over.
C17_StatedFallback ==
    /\ config_map_calls <= 2
    /\ fallback_runs <= 1
    /\ FallbackOver =>
          /\ \A i \in Slaves : /\ <<i, 7186, TRUE>> \in clear_log
                               /\ <<i, 7187, TRUE>> \in clear_log
          /\ config_init_reruns = 1
          /\ config_map_calls = 2
    /\ (config_map_calls = 2 /\ config_map_ok) => cs_error = "none"

\* C17 amended: after a failed first config_map the fallback runs once: for
\* every slave the write 0x1C12:0 = 0 is attempted, and 0x1C13:0 = 0 is
\* attempted exactly if the first write returned; config_init is re-run
\* once; config_map is called a second time unless config_init or the
\* read_state after it raised; a second call that returns makes
\* configure_slaves return True, one that raises makes it raise; config_map
\* is never called more than twice (SpecUp).
C17_Fallback ==
    /\ config_map_calls <= 2
    /\ fallback_runs <= 1
    /\ config_init_reruns <= 1
    /\ (fallback_runs = 1 /\ mpc \notin {"cs_clear"}) =>
          \A i \in Slaves :
             /\ \E ok \in BOOLEAN : <<i, 7186, ok>> \in clear_log
             /\ (\E ok \in BOOLEAN : <<i, 7187, ok>> \in clear_log)
                   <=> <<i, 7186, TRUE>> \in clear_log
    /\ config_map_calls = 2 => (fallback_runs = 1 /\ config_init_reruns = 1)
    /\ (FallbackOver /\ config_map_calls < 2) => cs_error \in {"config_init", "read_state"}
    /\ (FallbackOver /\ mpc = "cs_return") => (config_map_calls = 2 /\ config_map_ok)
    /\ config_map_calls = 2 => (config_map_ok <=> cs_error = "none")
    /\ mpc = "cs_return" => config_map_ok

\* configure_slaves returns True after a fallback in which a clear write
\* raised
C17_Witness ==
    /\ mpc = "cs_return"
    /\ fallback_runs = 1
    /\ config_map_calls = 2
    /\ \E i \in Slaves : <<i, 7186, FALSE>> \in clear_log

\* C18 as stated: from the failed first config_map to the second
\* config_map call every device is in Pre-Operational state (SpecUp).
\* Violated: config_init resets the devices, the switch back to PREOP is
\* asked for without its result being checked.
C18_PreopDuringFallback ==
    mpc \in {"cs_clear", "cs_init", "cs_restore", "cs_map2"} => al_state = AllIn("PREOP")

\* the classes C19 names: -1 is timeout, wkc >= expected is success,
\* 0 < wkc < expected is degraded
C19_StatedClass(w, e) ==
    IF w = -1 THEN "timeout"
    ELSE IF w >= e THEN "success"
    ELSE IF 0 < w /\ w < e THEN "low_wkc"
    ELSE "none"
\* the classes with a working counter of 0 below the expected one degraded
C19_WrittenClass(w, e) ==
    IF w = -1 THEN "timeout"
    ELSE IF w >= e THEN "success"
    ELSE IF 0 <= w /\ w < e THEN "low_wkc"
    ELSE "none"

\* C19 as stated: each cycle of cyclic_operation is put in the class of
\* the reference classification: timeout for -1, success for wkc >=
\* expected_wkc, degraded for 0 < wkc < expected_wkc (SpecCyclic).
\* Violated by wkc = 0 with expected_wkc > 0, which the code counts as
\* degraded.
C19_StatedClassification ==
    mpc = "co_sleep" => /\ wkc_class = C19_StatedClass(wkc, expected_wkc)
                        /\ wkc_class # "none"

\* C19 amended: each cycle is put in exactly one class: timeout for
\* wkc = -1, success for wkc >= expected_wkc, degraded for
\* 0 <= wkc < expected_wkc, and exactly the counter of that class goes up
\* by one (SpecCyclic).
C19_Classification ==
    /\ [](mpc = "co_sleep" => /\ wkc_class = C19_WrittenClass(wkc, expected_wkc)
                              /\ wkc_class \in {"timeout", "success", "low_wkc"})
    /\ [][mpc = "co_classify" =>
            /\ timeout_count' - timeout_count
                  = (IF C19_WrittenClass(wkc, expected_wkc) = "timeout" THEN 1 ELSE 0)
            /\ success_count' - success_count
                  = (IF C19_WrittenClass(wkc, expected_wkc) = "success" THEN 1 ELSE 0)
            /\ low_wkc_count' - low_wkc_count
                  = (IF C19_WrittenClass(wkc, expected_wkc) = "low_wkc" THEN 1 ELSE 0)]_vars

\* a working counter of 0 with a positive expected one has been counted as
\* degraded
C19_Witness ==
    /\ mpc = "co_sleep"
    /\ wkc = 0
    /\ expected_wkc > 0
    /\ wkc_class = "low_wkc"
    /\ low_wkc_count > 0

\* C20: between two cycles of cyclic_operation success_count +
\* timeout_count + low_wkc_count equals the number of receive_processdata
\* calls made so far (inside a cycle, or after a cycle cut short by an
\* exception, it is at most one behind), no counter ever decreases, and
\* cycle_count equals success_count (SpecCyclic).
C20_Totals ==
    /\ [](/\ cycle_count = success_count
          /\ mpc = "co_top" => success_count + timeout_count + low_wkc_count = recv_calls
          /\ success_count + timeout_count + low_wkc_count <= recv_calls
          /\ recv_calls <= success_count + timeout_count + low_wkc_count + 1)
    /\ [][/\ success_count' >= success_count
          /\ timeout_count' >= timeout_count
          /\ low_wkc_count' >= low_wkc_count
          /\ cycle_count' >= cycle_count]_vars

\* three cycles have ended, one in each class
C20_Witness ==
    /\ mpc = "co_top"
    /\ recv_calls = 3
    /\ success_count = 1
    /\ timeout_count = 1
    /\ low_wkc_count = 1

\* the calls of main up to enter_preop_state
EarlySteps == {"open", "scan", "preop"}
\* the positions of main after its try block has been left
LeftTry == {"except", "finally", "end"}

\* C21: once master.open has raised, or scan_slaves or enter_preop_state has
\* returned False or raised, main is out of its try block for good, with
\* master.close() called by the time main returns; no later bring-up call is made (no PDO mapping write, no
\* config_map: no process-data buffer is mapped), no state above
\* Pre-Operational is requested and the worker thread is never started
\* (Spec).
C21_EarlyFailureAborts ==
    failed_step \in EarlySteps =>
        /\ mpc \in LeftTry
        /\ mpc = "end" => closed
        /\ wpc = "w_idle"
        /\ ~_data_exchange_running
        /\ output = <<>>
        /\ ~op_requested
        /\ ~safeop_written

\* main has ended after a failure before configure_pdo_mapping: the adapter
\* is released and nothing was mapped, requested or started
C21_Witness ==
    /\ failed_step = "preop"
    /\ mpc = "end"
    /\ closed
    /\ wpc = "w_idle"
    /\ output = <<>>
    /\ ~op_requested

\* the positions of main after set_slaves_to_op_state_cst has returned and
\* before stop_data_exchange_thread: configure_cst_mode, cyclic_operation_cst
AfterOpPositions ==
    {"cst_mode", "cst_check", "cst_diag_lock", "cst_diag", "cst_init", "cst_top",
     "cst_status_lock", "cst_status", "cst_cw", "cst_tq", "cst_wmode", "cst_inc",
     "cst_end"}

\* C22 as stated: main goes on to configure_cst_mode and
\* cyclic_operation_cst only if set_slaves_to_op_state_cst has returned
\* True, and without that no torque other than 0 is commanded (Spec).
\* Violated: main calls set_slaves_to_op_state_cst as a statement and never
\* looks at what it returns.
C22_OpFailureAborts ==
    /\ mpc \in AfterOpPositions => op_ok
    /\ ~op_ok => _thread_target_torque = 0

\* the main thread is at a statement that reads master.slaves[i].input: the
\* pre-loop diagnosis and the status word read of cyclic_operation_cst
MainReadsInput == mpc \in {"cst_diag", "cst_status"}
\* the worker is at the statement slave.output = bytes(output_data)
WorkerWritesOutput == wpc \in {"w_init_mode", "w_enc_mode"}

\* C23 as stated: while the worker thread is alive, slave.output is
\* written by the worker only and slave.input is read by the worker only
\* (Spec).  Violated: cyclic_operation_cst reads slave.input in the main
\* thread (under the lock), and the worker never reads slave.input at all.
C23_WorkerOwnsBuffers ==
    /\ [](ThreadAlive => ~MainReadsInput)
    /\ [][(ThreadAlive /\ output' # output) => WorkerWritesOutput]_vars

\* the pair (control word, torque) as a function of the step, the period
\* and the non-critical flag alone: Fault Reset up to the dwell d, then
\* three stages of int(1000 / period) cycles, then Running
C24_Dwell(p, nc) == IF nc THEN (4000 \div p) \div 2 ELSE 4000 \div p
C24_Pair(s, p, nc) ==
    IF s <= C24_Dwell(p, nc) THEN <<128, 0>>
    ELSE IF s <= C24_Dwell(p, nc) + (1000 \div p) THEN <<6, 0>>
    ELSE IF s <= C24_Dwell(p, nc) + (2000 \div p) THEN <<7, 0>>
    ELSE IF s <= C24_Dwell(p, nc) + (3000 \div p) THEN <<15, 0>>
    ELSE <<15, 50>>

\* C24: the status words read in the loop of cyclic_operation_cst do not
\* change the outputs: whatever status words were read (fault bit cleared
\* early, late or never, so whatever fault_cleared is), the pair (control
\* word, torque) written at a step is the same function of the step, the
\* period and the non-critical flag, so two runs that agree on period and
\* flag write the same sequence; Fault Reset is written exactly while
\* step <= fault_reset_duration (SpecCst).
C24_StatusWordIgnored ==
    mpc = "cst_advance" =>
        /\ <<_thread_controlword, _thread_target_torque>>
              = C24_Pair(step, ETHERCAT_CYCLE_TIME_MS, has_non_critical_error)
        /\ _thread_controlword = 128
              <=> step <= C24_Dwell(ETHERCAT_CYCLE_TIME_MS, has_non_critical_error)

\* the fault bit has been seen cleared long before the dwell is over and
\* Fault Reset is still written
C24_Witness ==
    /\ mpc = "cst_advance"
    /\ fault_cleared
    /\ step = 1
    /\ ~has_non_critical_error
    /\ _thread_controlword = 128

\* the Fault Reset dwell C25 names: half of int(4000 / period) if a known
\* non-critical fault code was found, int(4000 / period) otherwise
C25_Dwell(p, found) == IF found THEN (4000 \div p) \div 2 ELSE 4000 \div p

\* C25: the flag has_non_critical_error is set exactly when the diagnosis
\* read a status word with the fault bit set and the error code 0x730F; the
\* Fault Reset dwell is then int(int(4000 / period) * 0.5) and int(4000 /
\* period) in every other case (no status word, no fault, another code, no
\* code), and the Shutdown, Switch On and Enable Operation thresholds are
\* the dwell actually used plus int(1000 / period), int(2000 / period) and
\* int(3000 / period) (Spec).
C25_DwellHalvedOnKnownCode ==
    /\ mpc = "cst_init" =>
          (has_non_critical_error
              <=> (diag[1] # -1 /\ (diag[1] \div 8) % 2 = 1 /\ diag[2] = 29455))
    /\ mpc = "cst_inc" =>
          LET p == ETHERCAT_CYCLE_TIME_MS
              d == C25_Dwell(p, has_non_critical_error)
          IN /\ _thread_controlword =
                   IF step <= d THEN 128
                   ELSE IF step <= d + (1000 \div p) THEN 6
                   ELSE IF step <= d + (2000 \div p) THEN 7
                   ELSE 15
             /\ _thread_target_torque =
                   IF step <= d + (3000 \div p) THEN 0 ELSE 50

\* with the non-critical code found the loop has left Fault Reset after half
\* the base dwell: step 3 of a 1000 ms period is in the Shutdown stage
C25_Witness ==
    /\ mpc = "cst_inc"
    /\ has_non_critical_error
    /\ step = 3
    /\ _thread_controlword = 6

\* C26: from module load to the end of the session the field
\* _thread_mode_of_operation is 10 (Cyclic Synchronous Torque), and every
\* frame the worker has encoded into slave.output carries 10 in byte 4
\* (Spec).
C26_ModePinned ==
    /\ _thread_mode_of_operation = 10
    /\ output \notin {<<>>, MappedOutput} => output[5] = 10
    /\ (wpc \in {"w_init_send", "w_send"} /\ Len(output_data) >= 6
          /\ output_data = output) => output_data[5] = 10

\* the worker has encoded a frame of the Running stage, mode 10 in byte 4
C26_Witness ==
    /\ wpc = "w_send"
    /\ output = <<15, 0, 50, 0, 10, 0>>
    /\ mpc \in {"cst_top", "cst_status_lock", "cst_status", "cst_cw", "cst_tq",
                "cst_wmode", "cst_inc"}

\* the lengths, in cycles, the thresholds of the loop give the stages for
\* the period of the run: the full and the halved Fault Reset dwell, and the
\* Shutdown, Switch On and Enable Operation stages between the thresholds
BaseDwell == FaultResetDuration(ETHERCAT_CYCLE_TIME_MS, FALSE)
HalvedDwell == FaultResetDuration(ETHERCAT_CYCLE_TIME_MS, TRUE)
ShutdownCycles == Cycles(shutdown_offset_ms, ETHERCAT_CYCLE_TIME_MS)
SwitchOnCycles ==
    Cycles(switch_on_offset_ms, ETHERCAT_CYCLE_TIME_MS)
       - Cycles(shutdown_offset_ms, ETHERCAT_CYCLE_TIME_MS)
EnableCycles ==
    Cycles(enable_offset_ms, ETHERCAT_CYCLE_TIME_MS)
       - Cycles(switch_on_offset_ms, ETHERCAT_CYCLE_TIME_MS)
\* the steps of the run so far at which the loop wrote the stage it is in,
\* counted from the end of the Fault Reset dwell used
StepInStage ==
    step - FaultResetDuration(ETHERCAT_CYCLE_TIME_MS, has_non_critical_error)
\* the stage lengths are those of the loop: at a step the loop has written
\* the control word of the stage the thresholds put the step in
LengthsAreTheLoops ==
    mpc = "cst_advance" =>
        /\ _thread_controlword = 128 <=> StepInStage <= 0
        /\ _thread_controlword = 6 <=> StepInStage \in 1..ShutdownCycles
        /\ _thread_controlword = 7
              <=> StepInStage \in (ShutdownCycles + 1)..(ShutdownCycles + SwitchOnCycles)
        /\ (_thread_controlword = 15 /\ _thread_target_torque = 0)
              <=> StepInStage \in (ShutdownCycles + SwitchOnCycles + 1)
                                    ..(ShutdownCycles + SwitchOnCycles + EnableCycles)

\* C27 as stated: for every period P of 1..10 ms each stage's cycle count
\* times P is the nominal duration: 4000 ms for the Fault Reset dwell, 2000
\* ms for the halved dwell, 1000 ms for Shutdown, Switch On and Enable
\* Operation (SpecCst).  Violated for P = 3, 6, 7 and 9: int(4000 / 3) * 3 =
\* 3999.
C27_StatedLengths ==
    LET p == ETHERCAT_CYCLE_TIME_MS
    IN /\ BaseDwell * p = 4000
       /\ HalvedDwell * p = 2000
       /\ ShutdownCycles * p = 1000
       /\ SwitchOnCycles * p = 1000
       /\ EnableCycles * p = 1000

\* C27 amended: for every period P of 1..10 ms the thresholds are truncated
\* to whole cycles, so a stage's cycle count times P differs from the nominal
\* duration by less than P: 4000 - P < int(4000 / P) * P <= 4000,
\* 2000 - P < int(int(4000 / P) * 0.5) * P <= 2000, 1000 - P < int(1000 / P)
\* * P <= 1000 for Shutdown, and within P of 1000 ms on either side for
\* Switch On and Enable Operation; the durations are exact for the periods
\* that divide 1000 (1, 2, 4, 5, 8, 10 ms) and only for them; these lengths
\* are the ones the loop writes its control words by (SpecCst).
C27_Lengths ==
    LET p == ETHERCAT_CYCLE_TIME_MS
    IN /\ 4000 - p < BaseDwell * p /\ BaseDwell * p <= 4000
       /\ 2000 - p < HalvedDwell * p /\ HalvedDwell * p <= 2000
       /\ 1000 - p < ShutdownCycles * p /\ ShutdownCycles * p <= 1000
       /\ 1000 - p < SwitchOnCycles * p /\ SwitchOnCycles * p < 1000 + p
       /\ 1000 - p < EnableCycles * p /\ EnableCycles * p < 1000 + p
       /\ 1000 % p = 0 <=> C27_StatedLengths
       /\ LengthsAreTheLoops

\* with a period of 7 ms the loop has written the last of the 143 cycles of
\* Switch On, 1001 ms, after a dwell of 571 cycles, 3997 ms
C27_Witness ==
    /\ ETHERCAT_CYCLE_TIME_MS = 7
    /\ ~has_non_critical_error
    /\ mpc = "cst_advance"
    /\ _thread_controlword = 7
    /\ step = 571 + 142 + 143
    /\ SwitchOnCycles = 143

\* C28: the distributed-clock verification is not fatal: a config_dc that
\* returns False or raises and a dc_sync that raises are passed over, the
\* bring-up goes on to the next call and to the SAFEOP request; and once the
\* SAFEOP state check has succeeded, enter_safeop_state never returns False:
\* whatever the reads of 0x1C32:0x01 give (2, 1, another value, no value) it
\* returns True, and it ends otherwise only by an exception of read_state,
\* which the values read do not decide (SpecUp).
C28_DcNotFatal ==
    /\ [][(mpc = "so_dc") => (mpc' = "so_sync")]_vars
    /\ [][(mpc = "so_sync") => (mpc' \in {"so_sync", "so_write"})]_vars
    /\ [][(mpc = "so_verify") =>
             /\ mpc' \in {"start_thread", "except"}
             /\ mpc' = "start_thread" => dc_control' \in [Slaves -> DcControls]
             /\ closed' = closed]_vars
    /\ [](dc_control # <<>> => (safeop_requested /\ mpc # "so_verify"))
    /\ [](safeop_requested => dc_sync_calls = Slaves)

\* enter_safeop_state has returned True although config_dc and every
\* dc_sync failed and no slave reports DC activated
C28_Witness ==
    /\ mpc = "start_thread"
    /\ safeop_requested
    /\ dc_failed = {<<"config_dc", 0>>} \cup {<<"dc_sync", i>> : i \in Slaves}
    /\ dc_control = [i \in Slaves |-> IF i = 1 THEN 1 ELSE -1]
    /\ ~DcConfigOk(dc_control)

\* C29: the worker only reads the shared fields: every step that changes
\* _thread_controlword, _thread_target_torque or _thread_mode_of_operation
\* is a step of the main thread, and no step of data_exchange_worker (the
\* initial exchange, a tick, the exception path), which leaves the main
\* thread where it is, changes any of them (Spec).
C29_WorkerReadsFields ==
    /\ [][(fieldVars' # fieldVars) => (mpc' # mpc)]_vars
    /\ [][(wpc' # wpc /\ mpc' = mpc) => (fieldVars' = fieldVars)]_vars

\* the worker is backing off after a tick that raised while the main
\* thread's torque command stands
C29_Witness ==
    /\ wpc = "w_backoff"
    /\ _data_exchange_cycle_count > 0
    /\ _thread_controlword = CW_ENABLE_OPERATION
    /\ _thread_target_torque # 0
    /\ _thread_mode_of_operation = 10

\* C30: configure_pdo_mapping writes mapping objects only in PREOP: a
\* mapping write is issued only with every slave last observed in
\* PREOP_STATE, and with a slave that could not be brought to PREOP the
\* precheck leaves all_preop False, so that the function returns False
\* without a write (SpecPdo).
C30_MappingOnlyInPreop ==
    /\ mpc = "pdo_write" => \A i \in Slaves : slave_states[i] = "PREOP"
    /\ (mpc = "pdo_checked" /\ \E i \in Slaves : slave_states[i] # "PREOP")
          => ~all_preop
    /\ pdo_written => \A i \in Slaves : slave_states[i] = "PREOP"

\* C31: configure_slaves calls config_map for the first time only with
\* every slave last observed in PREOP_STATE: with a slave whose switch back
\* to PREOP failed the precheck ends with all_preop False, whatever a later
\* slave's switch did, and config_map is not called (SpecUp).
C31_ConfigMapOnlyInPreop ==
    /\ mpc = "cs_map1" => \A i \in Slaves : slave_states[i] = "PREOP"
    /\ (mpc = "cs_checked" /\ \E i \in Slaves : slave_states[i] # "PREOP")
          => ~all_preop

(***************************************************************************)
(* SpecEnc: data_exchange_worker from its start, the main thread at rest,  *)
(* the fields at any stage of the enable sequence and slave.output of any  *)
(* of the lengths below with bytes left from before.                       *)
(***************************************************************************)
\* len(slave.output): no buffer, a buffer too short for the frame, one that
\* holds it exactly, a longer one
OutputLengths == {0, 4, FRAME_LEN, FRAME_LEN + 2}
\* bytes a buffer holds before the worker encodes into it
LeftoverBytes == {0, 255}
OutputBuffers == UNION {[1..n -> LeftoverBytes] : n \in OutputLengths}

InitEnc ==
    /\ ETHERCAT_CYCLE_TIME_MS = 2
    /\ _data_exchange_running = TRUE
    /\ _data_exchange_lock = "free"
    /\ _data_exchange_cycle_count = 0
    /\ \E i \in 1..5 : /\ _thread_controlword = StagePairs[i][1]
                       /\ _thread_target_torque = StagePairs[i][2]
    /\ _thread_mode_of_operation = CST_MODE
    /\ output \in OutputBuffers
    /\ output_data = <<>>
    /\ mpc = "cst_sleep"
    /\ wpc = "w_start"
    /\ step = 0
    /\ has_non_critical_error = FALSE
    /\ diag = <<NoStatus, 0>>
    /\ fault_cleared = FALSE
    /\ slave_state = "OP"
    /\ result_state = "OP"
    /\ attempt = 0
    /\ op_ok = TRUE
    /\ wait_timed_out = FALSE
    /\ wait_elapsed_ms = 0
    /\ op_requested = TRUE
    /\ safeop_written = FALSE
    /\ closed = FALSE
    /\ failed_step = "none"
    /\ tick_ops = <<>>
    /\ outstanding = 0
    /\ SeqIdle

SpecEnc == InitEnc /\ [][WorkerNext]_vars

\* C32: when the worker encodes (initial exchange or tick), a buffer of at
\* least 6 bytes gets the control word little-endian in bytes 0..1, the
\* signed torque in 2..3, the mode in 4 and 0 in 5, keeps its length and
\* its bytes from offset 6 on; a shorter or absent buffer is never changed,
\* and the tick still goes on to its send_processdata (SpecEnc).
C32_Bytes(cw, tq, m) ==
    LET t == (tq + 65536) % 65536
    IN <<cw % 256, cw \div 256, t % 256, t \div 256, m, 0>>
C32_OnlyFrameBytes ==
    /\ [][(wpc \in {"w_init_mode", "w_enc_mode"}) =>
             /\ Len(output') = Len(output)
             /\ SubSeq(output', 1, FRAME_LEN) =
                   C32_Bytes(_thread_controlword, _thread_target_torque,
                             _thread_mode_of_operation)
             /\ \A i \in (FRAME_LEN + 1)..Len(output) : output'[i] = output[i]]_vars
    /\ [][(output' # output) =>
             (wpc \in {"w_init_mode", "w_enc_mode"} /\ Len(output) >= FRAME_LEN)]_vars
    /\ [][(wpc = "w_enc_cw") =>
             wpc' = IF Len(output) >= FRAME_LEN THEN "w_enc_tq" ELSE "w_send"]_vars
    /\ [][(wpc = "w_init_cw") =>
             wpc' = IF Len(output) >= FRAME_LEN THEN "w_init_tq" ELSE "w_init_send"]_vars
    /\ [][(wpc = "w_enc_tq") => (wpc' = "w_enc_mode")]_vars
    /\ [][(wpc = "w_init_tq") => (wpc' = "w_init_mode")]_vars
    /\ [][(wpc = "w_send") =>
             (tick_ops' = Append(tick_ops, "send") \/ wpc' = "w_backoff")]_vars

\* a tick has encoded the Running frame into an 8-byte buffer whose last
\* two bytes were 255 before
C32_Witness ==
    /\ wpc = "w_send"
    /\ _data_exchange_cycle_count > 0
    /\ output = <<15, 0, 50, 0, 10, 0, 255, 255>>

(***************************************************************************)
(* SpecStall: start_data_exchange_thread and set_slaves_to_op_state_cst    *)
(* beside a worker that is followed for MaxCycles cycles only, so that the *)
(* wait for wait_cycles cycles can end on its time limit alone.            *)
(***************************************************************************)
\* the cycle periods of SpecStall, in ms: the wait loop sleeps one period
\* at a time
StallPeriods == {250, 500, 1000}

InitStall ==
    /\ ETHERCAT_CYCLE_TIME_MS \in StallPeriods
    /\ _data_exchange_running = FALSE
    /\ _data_exchange_lock = "free"
    /\ _data_exchange_cycle_count = 0
    /\ _thread_controlword = CW_FAULT_RESET
    /\ _thread_target_torque = 0
    /\ _thread_mode_of_operation = CST_MODE
    /\ output = MappedOutput
    /\ output_data = <<>>
    /\ mpc = "start_thread"
    /\ wpc = "w_idle"
    /\ step = 0
    /\ has_non_critical_error = FALSE
    /\ diag = <<NoStatus, 0>>
    /\ fault_cleared = FALSE
    /\ slave_state = "SAFEOP"
    /\ result_state = "NONE"
    /\ attempt = 0
    /\ op_ok = FALSE
    /\ wait_timed_out = FALSE
    /\ wait_elapsed_ms = 0
    /\ op_requested = FALSE
    /\ safeop_written = FALSE
    /\ closed = FALSE
    /\ failed_step = "none"
    /\ tick_ops = <<>>
    /\ outstanding = 0
    /\ SeqIdle

NextStall == MainNextOp \/ WorkerNext

SpecStall == InitStall /\ [][NextStall]_vars

\* both threads are scheduled, the main thread gets the lock that the
\* worker releases in every cycle before it sleeps, and a process-data call
\* that is tried again and again returns at some point instead of raising
\* every time
FairSpecStall ==
    /\ SpecStall
    /\ WF_vars(MainNextOp)
    /\ WF_vars(WorkerNext)
    /\ SF_vars(OpConfirmLock)
    /\ SF_vars(WorkerRecv)
    /\ SF_vars(WorkerSend)

\* C33: set_slaves_to_op_state_cst always gives control back: with a worker
\* whose cycle count never reaches wait_cycles the wait loop is left on its
\* time limit, no later than the first sleep that ends past one second; the
\* OP request is written at most once; at most max_attempts (10) state
\* checks are made; and the call, once entered, returns or raises
\* (FairSpecStall).
C33_OpCallReturns ==
    /\ [](mpc \in {"op_wait", "op_wait_sleep"} => wait_elapsed_ms <= 1000)
    /\ [](op_requested => wait_timed_out)
    /\ [](mpc = "op_write_state" => ~op_requested)
    /\ [](attempt < max_attempts)
    /\ [][attempt' \in {attempt, attempt + 1, 0}]_vars
    /\ (mpc = "op_enter") ~> (mpc \in {"cst_mode", "except"})

\* the call has returned False after the wait timed out beside a worker
\* that never completed a cycle
C33_Witness ==
    /\ mpc = "cst_mode"
    /\ wait_timed_out
    /\ op_requested
    /\ ~op_ok
    /\ _data_exchange_cycle_count = 0
    /\ ETHERCAT_CYCLE_TIME_MS = 250

(***************************************************************************)
(* SpecStop: stop_data_exchange_thread called beside the worker, which has *)
(* got as far as the scheduler let it.                                     *)
(***************************************************************************)
InitStop ==
    /\ ETHERCAT_CYCLE_TIME_MS = 2
    /\ _data_exchange_running = TRUE
    /\ _data_exchange_lock = "free"
    /\ _data_exchange_cycle_count = 0
    /\ _thread_controlword = CW_ENABLE_OPERATION
    /\ _thread_target_torque = RUN_TORQUE
    /\ _thread_mode_of_operation = CST_MODE
    /\ output = MappedOutput
    /\ output_data = <<>>
    /\ mpc = "stop"
    /\ wpc = "w_start"
    /\ step = 0
    /\ has_non_critical_error = FALSE
    /\ diag = <<NoStatus, 0>>
    /\ fault_cleared = FALSE
    /\ slave_state = "OP"
    /\ result_state = "NONE"
    /\ attempt = 0
    /\ op_ok = TRUE
    /\ wait_timed_out = FALSE
    /\ wait_elapsed_ms = 0
    /\ op_requested = TRUE
    /\ safeop_written = FALSE
    /\ closed = FALSE
    /\ failed_step = "none"
    /\ tick_ops = <<>>
    /\ outstanding = 0
    /\ SeqIdle

NextStop == StopThread \/ JoinReturns \/ JoinTimesOut \/ WorkerNext

SpecStop == InitStop /\ [][NextStop]_vars

\* the worker thread is scheduled; a receive or a send returns or raises
FairSpecStop == SpecStop /\ WF_vars(WorkerNext)

\* the worker's positions in the order it passes them once the flag is
\* cleared: the initial exchange or the tick it is in, the count and the
\* sleep, the loop test, the end
StopOrder ==
    <<"w_start", "w_init_cw", "w_init_tq", "w_init_mode", "w_init_send", "w_init_recv",
      "w_lock", "w_recv", "w_enc_cw", "w_enc_tq", "w_enc_mode", "w_send", "w_count",
      "w_sleep", "w_backoff", "w_top", "w_done", "w_dead">>
StopRank(pc) == CHOOSE i \in 1..Len(StopOrder) : StopOrder[i] = pc
\* the worker can still send from here without beginning a tick
BeforeSend(pc) == pc \in {"w_start", "w_init_cw", "w_init_tq", "w_init_mode", "w_init_send",
                          "w_lock", "w_recv", "w_enc_cw", "w_enc_tq", "w_enc_mode", "w_send"}

\* C34: once stop_data_exchange_thread has cleared _data_exchange_running
\* the worker only moves forward through the exchange it is in: it begins no
\* tick, so that it sends at most once more (the send of the initial
\* exchange or of the tick it is in), it leaves the loop at its next loop
\* test and, scheduled fairly, reaches the end of its function and stays
\* there (FairSpecStop).
C34_StopIsBounded ==
    /\ [][(~_data_exchange_running /\ wpc' # wpc) => StopRank(wpc') > StopRank(wpc)]_vars
    /\ [][(~_data_exchange_running /\ wpc' # wpc /\ BeforeSend(wpc')) =>
             (BeforeSend(wpc) /\ (wpc' = "w_lock" => wpc = "w_lock")
              /\ (wpc' \in {"w_lock", "w_recv"} => wpc \in {"w_lock", "w_recv"}))]_vars
    /\ [][(~_data_exchange_running /\ wpc = "w_init_recv") =>
             wpc' \in {"w_init_recv", "w_top", "w_dead"}]_vars
    /\ [][(~_data_exchange_running /\ wpc = "w_top") => wpc' \in {"w_top", "w_done"}]_vars
    /\ [][(wpc \in {"w_done", "w_dead"}) => (wpc' = wpc)]_vars
    /\ [][~_data_exchange_running => ~_data_exchange_running']_vars
    /\ (~_data_exchange_running) ~> (wpc \in {"w_done", "w_dead"})

\* the flag was cleared while the worker was in a tick; the worker has sent
\* that tick's frame, left the loop and the join has returned
C34_Witness ==
    /\ wpc = "w_done"
    /\ mpc = "teardown"
    /\ ~_data_exchange_running
    /\ tick_ops = <<"recv", "encode", "send">>
    /\ _data_exchange_cycle_count = 1

\* the positions at which the worker is about to call send or receive
WorkerAtExchange == {"w_init_send", "w_init_recv", "w_recv", "w_send"}
\* the positions at which a thread is about to enter a with
\* _data_exchange_lock block
MainAtLock == {"op_confirm_lock", "cst_diag_lock", "cst_status_lock"}
WorkerAtLock == {"w_start", "w_lock"}

\* C35: a thread that is about to call send_processdata or
\* receive_processdata holds _data_exchange_lock, so that the two threads
\* are never both at such a call, and a thread that is about to acquire the
\* lock does not hold it (Spec).
C35_ExchangesUnderLock ==
    /\ wpc \in WorkerAtExchange => _data_exchange_lock = "worker"
    /\ mpc \in MainAtExchange => _data_exchange_lock = "main"
    /\ ~(wpc \in WorkerAtExchange /\ mpc \in MainAtExchange)
    /\ mpc \in MainAtLock => _data_exchange_lock # "main"
    /\ wpc \in WorkerAtLock => _data_exchange_lock # "worker"

\* the worker is at the receive of its initial exchange while the main
\* thread, its wait timed out, is about to take the lock for its own
C35_Witness ==
    /\ wpc = "w_init_recv"
    /\ mpc = "op_confirm_lock"
    /\ _data_exchange_lock = "worker"

\* C36: whatever the interleaving of the main thread's unlocked writes of
\* the fields with the worker's encode, every frame the worker stores in
\* slave.output carries one of the five (control word, torque) pairs of the
\* enable sequence, and a frame with a torque other than 0 carries the
\* control word 0x000F (Spec).
C36_EncodedPairs ==
    /\ [][(WorkerWritesOutput /\ wpc' # wpc) =>
             StageIndex(FrameControlword(output'), FrameTorque(output')) # 0]_vars
    /\ [](output \notin {<<>>, MappedOutput} =>
             /\ StageIndex(FrameControlword(output), FrameTorque(output)) # 0
             /\ FrameTorque(output) # 0 => FrameControlword(output) = CW_ENABLE_OPERATION)

\* the worker encoded the control word 0x000F while the torque field was
\* still 0 and stored the frame (0x000F, 0) after the main thread had gone
\* on to write the torque 50
C36_Witness ==
    /\ wpc = "w_send"
    /\ FrameControlword(output) = CW_ENABLE_OPERATION
    /\ FrameTorque(output) = 0
    /\ _thread_target_torque = RUN_TORQUE
    /\ mpc = "cst_wmode"

\* C37: send and receive stay paired: whenever the worker loop or the main
\* thread's confirmation exchange is about to call receive_processdata, at
\* least one frame sent by send_processdata is outstanding, also at the
\* first receive of the worker loop after the initial exchange (SpecStall).
\* Violated: the initial exchange receives what it sent and the loop begins
\* with a receive.
C37_ReceiveHasFrame ==
    (wpc = "w_recv" \/ mpc \in {"op_recv1", "op_recv2"}) => outstanding >= 1

\* C38: set_slaves_to_op_state_cst returns True, and goes on to reset the
\* shared control word to 0x0080, only with the slaves read in OP_STATE by
\* its last read_state; and it returns False with no OP request written
\* when a slave is not in SAFEOP on entry (SpecStall).  Violated: the
\* result is the last state_check alone.
C38_TrueOnlyInOp ==
    /\ mpc \in {"op_set_cw", "op_set_tq", "op_set_mode"} => slave_state = "OP"
    /\ (mpc = "cst_mode" /\ op_ok) => slave_state = "OP"
    /\ (mpc = "cst_mode" /\ ~op_requested) => ~op_ok


(***************************************************************************)
(* The way of main through its body: the positions in program order, and   *)
(* the three loops (the warm-up wait, the state checks, the cyclic loop)    *)
(* with the counter each back edge advances.                               *)
(***************************************************************************)
MainOrder ==
    <<"open", "scan", "preop", "pdo_mapping", "configure_slaves", "enter_safeop",
      "start_thread", "op_enter", "op_wait", "op_wait_sleep", "op_confirm_lock",
      "op_send1", "op_recv1", "op_send2", "op_recv2", "op_write_state", "op_check",
      "op_final", "op_set_cw", "op_set_tq", "op_set_mode", "cst_mode", "cst_check",
      "cst_diag_lock", "cst_diag", "cst_init", "cst_top", "cst_status_lock",
      "cst_status", "cst_cw", "cst_tq", "cst_wmode", "cst_inc", "cst_end", "stop",
      "join", "teardown", "except", "finally", "end">>
MainRank(pc) == CHOOSE i \in 1..Len(MainOrder) : MainOrder[i] = pc
\* a step of main goes forward in the program, or takes the back edge of a
\* loop with the loop's bounded counter advanced
MainAdvances ==
    \/ MainRank(mpc') > MainRank(mpc)
    \/ /\ mpc = "op_wait_sleep" /\ mpc' = "op_wait"
       /\ wait_elapsed_ms' > wait_elapsed_ms
       /\ wait_elapsed_ms' <= 1000
    \/ /\ mpc = "op_check" /\ mpc' = "op_check"
       /\ attempt' > attempt
       /\ attempt' < max_attempts
    \/ /\ mpc = "cst_inc" /\ mpc' = "cst_top"
       /\ step' > step
       /\ step' <= step_limit
\* main waits at a with block for the lock the worker holds, and the
\* worker can go on to release it
MainWaitsForWorker ==
    /\ mpc \in MainAtLock
    /\ _data_exchange_lock = "worker"
    /\ ENABLED WorkerNext

RunPeriods == {10, 1000}
\* the loop in the Running stage: Enable Operation with the target torque
InRunning ==
    /\ _thread_controlword = CW_ENABLE_OPERATION
    /\ _thread_target_torque = RUN_TORQUE
InitRun ==
    /\ ETHERCAT_CYCLE_TIME_MS \in RunPeriods
    /\ _data_exchange_running = TRUE
    /\ _data_exchange_lock = "free"
    /\ _data_exchange_cycle_count = 0
    /\ has_non_critical_error \in BOOLEAN
    /\ step \in {0, step_limit - MaxRunSteps}
    /\ _thread_controlword =
          IF step = 0 THEN CW_FAULT_RESET
          ELSE StageControlword(step - 1, ETHERCAT_CYCLE_TIME_MS, has_non_critical_error)
    /\ _thread_target_torque =
          IF step = 0 THEN 0
          ELSE StageTorque(step - 1, ETHERCAT_CYCLE_TIME_MS, has_non_critical_error)
    /\ _thread_mode_of_operation = CST_MODE
    /\ output = EncodeFrame([i \in 1..FRAME_LEN |-> 0], _thread_controlword,
                            _thread_target_torque, CST_MODE)
    /\ output_data = output
    /\ mpc = "cst_stage"
    /\ wpc = "w_sleep"
    /\ diag = <<NoStatus, 0>>
    /\ fault_cleared \in {step > 0, FALSE}
    /\ slave_state = "OP"
    /\ result_state = "OP"
    /\ attempt = 0
    /\ op_ok = TRUE
    /\ wait_timed_out = FALSE
    /\ wait_elapsed_ms = 0
    /\ op_requested = TRUE
    /\ safeop_written = FALSE
    /\ closed = FALSE
    /\ failed_step = "none"
    /\ tick_ops = <<>>
    /\ outstanding = 1
    /\ SeqIdle

SpecRun == InitRun /\ [][NextCst]_vars

\* the main thread is scheduled as long as its loop runs; its sleep of one
\* period per iteration leaves the worker its ticks
FairSpecRun == SpecRun /\ WF_vars(CstStage \/ CstAdvance \/ CstLoopExit)

=============================================================================
